---- MODULE Spec2Model ----
(***************************************************************************)
(* Model of the shopify-oauth-worker request handlers (src/lib/handlers.js)*)
(* over the three Workers KV namespaces SHOPS, AUTH_STATES and API_KEYS.   *)
(*                                                                         *)
(* Every request runs in a slot p \in Procs; requests in different slots   *)
(* interleave.                                                             *)
(* A handler is cut at its KV operations, the only accesses to state that  *)
(* requests share: a step is one KV operation with the code that follows   *)
(* it up to the next one (the first step also has the code before it).     *)
(* The code between two KV operations is synchronous or awaits request     *)
(* parsing, crypto.subtle or an upstream fetch, whose outcome is drawn     *)
(* when the step is taken.  A handler with one KV operation is one step.   *)
(* When a handler returns or throws, its slot is "done" and holds the      *)
(* request, the response and the request's history until Respond(p) sends  *)
(* the response and frees the slot, which happens before any other step.   *)
(* The KV namespaces                                                       *)
(* follow the store contract get/put/delete (operations do not fail); the  *)
(* timestamps installedAt and createdAt are written but never read by any  *)
(* handler and are left out of the stored values.                          *)
(* An upstream call is a call of fetch(): it rejects (the upstream is not   *)
(* reached) or gives a response.  The variable expired is history only: no *)
(* handler reads it.                                                       *)
(*                                                                         *)
(* Spec has every handler; SpecOAuth the install and callback flow alone;  *)
(* SpecIssuance that flow with credential issuance and more keys;          *)
(* SpecAwaits the callback flow with an upstream that may never answer,    *)
(* under weak fairness of the steps the runtime resumes.  SpecHmac applies *)
(* the functions of hmac.js to inputs drawn in its initial states, and     *)
(* SpecClient runs the extension's ShopifyAuthClient against a worker      *)
(* whose answers are drawn at each request; SpecAuth runs authenticate()   *)
(* calls that overlap on one client.                                       *)
(***************************************************************************)
EXTENDS Integers, Sequences, FiniteSets, TLC

(***************************************************************************)
(* Bounds                                                                  *)
(***************************************************************************)
NumProcs == 2          \* request slots that can be in flight together
MaxStates == 2         \* state tokens crypto.randomUUID() can hand out
MaxKeys == 1           \* API keys crypto.randomUUID() can hand out
MaxIssued == 3         \* API keys handed out where issuance is looked at alone
MaxClientKeys == 2     \* API keys the worker hands to the extension client
MaxLen == 3            \* length of the strings timingSafeEqual is applied to
NumAuthCalls == 2      \* authenticate() calls of the extension that overlap

Procs == 1..NumProcs

(***************************************************************************)
(* Program constants                                                       *)
(***************************************************************************)
STATE_TTL_SECONDS == 600
API_KEY_TTL_DAYS == 90
SecondsPerDay == 86400

(***************************************************************************)
(* Values.  A shop domain is a sequence of characters so that the regular  *)
(* expression of isValidShopDomain is computed, not assumed.  The absent   *)
(* shop (null, undefined or "") is the empty sequence.                     *)
(***************************************************************************)
Letters == {"a", "b", "c", "d", "e", "f", "g", "h", "i", "j", "k", "l", "m",
            "n", "o", "p", "q", "r", "s", "t", "u", "v", "w", "x", "y", "z"}
Digits == {"0", "1", "2", "3", "4", "5", "6", "7", "8", "9"}
AlNum == Letters \cup Digits
Suffix == <<".", "m", "y", "s", "h", "o", "p", "i", "f", "y", ".", "c", "o", "m">>

NoShop == <<>>
ShopA == <<"a">> \o Suffix
ShopB == <<"b">> \o Suffix
BadShop == <<"-", "a">> \o Suffix
ValidShops == {ShopA, ShopB}
ShopInputs == {ShopA, ShopB, BadShop, NoShop}

Absent == ""                       \* a missing or empty string parameter
\* crypto.randomUUID() never repeats a value and cannot be guessed: the n-th
\* call for a state token returns StateUUID[n], the n-th call for an API key
\* KeyUUID[n]; a caller that makes a token up presents Forged.
StateUUID == <<"s1", "s2", "s3", "s4">>
KeyUUID == <<"k1", "k2", "k3", "k4">>
Forged == "forged"
Codes == {"code"}
AccessTokens == {"t1", "t2"}
OAUTH_SCOPES == "read_orders"
SHOPIFY_API_KEY == "client id"
SHOPIFY_API_SECRET == "secret"
OtherSecret == "guess"

(***************************************************************************)
(* Workers KV: a namespace is a function from its present keys to          *)
(* [value, expirationTtl]; expirationTtl = 0 stands for a put without TTL. *)
(***************************************************************************)
NoTtl == 0
KVGet(kv, key, absent) == IF key \in DOMAIN kv THEN kv[key].value ELSE absent
KVPut(kv, key, value, ttl) ==
  [k \in DOMAIN kv \cup {key} |->
     IF k = key THEN [value |-> value, expirationTtl |-> ttl] ELSE kv[k]]
KVDelete(kv, key) == [k \in DOMAIN kv \ {key} |-> kv[k]]
\* an entry that stays readable after its expirationTtl has elapsed
KVExpireKept(kv, key) == kv
\* an entry whose expirationTtl has elapsed: get returns null for it from then on
KVExpire(kv, key) == KVDelete(kv, key)
EmptyKV == [k \in {} |-> 0]

(***************************************************************************)
(* validation.js                                                           *)
(***************************************************************************)
RECURSIVE AllIn(_, _)
AllIn(seq, set) ==
  IF seq = <<>> THEN TRUE ELSE Head(seq) \in set /\ AllIn(Tail(seq), set)

\* /^[a-zA-Z0-9][a-zA-Z0-9-]*\.myshopify\.com$/.test(shop)
isValidShopDomain(shop) ==
  IF shop = NoShop THEN FALSE
  ELSE /\ Len(shop) > Len(Suffix)
       /\ SubSeq(shop, Len(shop) - Len(Suffix) + 1, Len(shop)) = Suffix
       /\ shop[1] \in AlNum
       /\ AllIn(SubSeq(shop, 1, Len(shop) - Len(Suffix)), AlNum \cup {"-"})

(***************************************************************************)
(* hmac.js.  HMAC-SHA256 is a symbolic keyed hash: the digest of a message *)
(* under a key is the tuple of the encoding, the key and the message, so   *)
(* two digests are equal exactly when encoding, key and message are.       *)
(* Parameter names and the strings timingSafeEqual loops over are          *)
(* sequences of characters, so that sorting and comparing are computed.    *)
(***************************************************************************)
NoHmac == <<>>
HmacSha256(encoding, secret, message) == <<encoding, secret, message>>

LowerCase == <<"a", "b", "c", "d", "e", "f", "g", "h", "i", "j", "k", "l", "m",
               "n", "o", "p", "q", "r", "s", "t", "u", "v", "w", "x", "y", "z">>
UpperCase == <<"A", "B", "C", "D", "E", "F", "G", "H", "I", "J", "K", "L", "M",
               "N", "O", "P", "Q", "R", "S", "T", "U", "V", "W", "X", "Y", "Z">>
Chars == {LowerCase[i] : i \in 1..26} \cup {UpperCase[i] : i \in 1..26}
IsLower(c) == \E i \in 1..26 : LowerCase[i] = c
PlaceOf(c) ==
  CHOOSE i \in 1..26 : (IF IsLower(c) THEN LowerCase[i] ELSE UpperCase[i]) = c

\* String.prototype.charCodeAt: the UTF-16 code unit of a letter
charCodeAt == [c \in Chars |-> IF IsLower(c) THEN 96 + PlaceOf(c) ELSE 64 + PlaceOf(c)]

\* the bitwise operators ^ and | on the code units
RECURSIVE BitXor(_, _)
BitXor(x, y) ==
  IF x = 0 /\ y = 0 THEN 0
  ELSE (IF x % 2 = y % 2 THEN 0 ELSE 1) + 2 * BitXor(x \div 2, y \div 2)
RECURSIVE BitOr(_, _)
BitOr(x, y) ==
  IF x = 0 /\ y = 0 THEN 0
  ELSE (IF x % 2 = 1 \/ y % 2 = 1 THEN 1 ELSE 0) + 2 * BitOr(x \div 2, y \div 2)

\* a loop that returns at the first index where the strings differ
RECURSIVE CompareLoopEarlyExit(_, _, _, _, _)
CompareLoopEarlyExit(a, b, i, result, steps) ==
  IF i > Len(a) \/ result # 0 THEN [result |-> result, steps |-> steps]
  ELSE CompareLoopEarlyExit(a, b, i + 1,
         BitOr(result, BitXor(charCodeAt[a[i]], charCodeAt[b[i]])), steps + 1)

\* for (let i = 0; i < a.length; i++) result |= a.charCodeAt(i) ^ b.charCodeAt(i)
\* i counts from 1 here; steps is the number of times the loop body ran
RECURSIVE CompareLoop(_, _, _, _, _)
CompareLoop(a, b, i, result, steps) ==
  IF i > Len(a) THEN [result |-> result, steps |-> steps]
  ELSE CompareLoop(a, b, i + 1,
         BitOr(result, BitXor(charCodeAt[a[i]], charCodeAt[b[i]])), steps + 1)

\* timingSafeEqual on strings: what it returns and how many loop steps it took
timingSafeEqualRun(a, b) ==
  IF Len(a) # Len(b) THEN [result |-> FALSE, steps |-> 0]
  ELSE LET run == CompareLoop(a, b, 1, 0, 0)
       IN  [result |-> run.result = 0, steps |-> run.steps]

\* timingSafeEqual on the symbolic digests: equal length and no differing
\* position is equality (timingSafeEqualRun computes it on strings)
timingSafeEqual(a, b) == a = b

\* parameter names
Key_code == <<"c", "o", "d", "e">>
Key_hmac == <<"h", "m", "a", "c">>
Key_shop == <<"s", "h", "o", "p">>
Key_state == <<"s", "t", "a", "t", "e">>
Key_signature == <<"s", "i", "g", "n", "a", "t", "u", "r", "e">>

\* a URLSearchParams is the sequence of its <<name, value>> entries
\* params.get(name): the value of the first entry of that name, or null
ParamsGet(params, name, absent) ==
  IF \E i \in 1..Len(params) : params[i][1] = name
  THEN params[CHOOSE i \in 1..Len(params) :
                /\ params[i][1] = name
                /\ \A j \in 1..(i - 1) : params[j][1] # name][2]
  ELSE absent
\* params.delete(name): every entry of that name is removed
ParamsDelete(params, name) == SelectSeq(params, LAMBDA e : e[1] # name)

\* the order of two strings under a sequence of weightings of their
\* characters: the first weighting that tells them apart decides
RECURSIVE CompareBy(_, _, _)
CompareBy(weight, a, b) ==
  IF a = <<>> /\ b = <<>> THEN 0
  ELSE IF a = <<>> THEN -1
  ELSE IF b = <<>> THEN 1
  ELSE IF weight[Head(a)] < weight[Head(b)] THEN -1
  ELSE IF weight[Head(a)] > weight[Head(b)] THEN 1
  ELSE CompareBy(weight, Tail(a), Tail(b))

\* String.prototype.localeCompare on letters: alphabetical whatever the case
\* and, between strings that differ in case only, lower case first
PrimaryWeight == [c \in Chars |-> PlaceOf(c)]
TertiaryWeight == [c \in Chars |-> IF IsLower(c) THEN 0 ELSE 1]
localeCompare(a, b) ==
  IF CompareBy(PrimaryWeight, a, b) # 0 THEN CompareBy(PrimaryWeight, a, b)
  ELSE CompareBy(TertiaryWeight, a, b)
\* the order of the code units
byteCompare(a, b) == CompareBy(charCodeAt, a, b)

\* Array.prototype.sort((a, b) => compare(a[0], b[0])): a stable sort of the
\* entries by name; order names the comparison
KeyCompare(order, a, b) ==
  IF order = "localeCompare" THEN localeCompare(a, b) ELSE byteCompare(a, b)
RECURSIVE InsertEntry(_, _, _)
InsertEntry(order, sorted, e) ==
  IF sorted = <<>> THEN <<e>>
  ELSE IF KeyCompare(order, e[1], Head(sorted)[1]) < 0 THEN <<e>> \o sorted
  ELSE <<Head(sorted)>> \o InsertEntry(order, Tail(sorted), e)
RECURSIVE SortEntries(_, _)
SortEntries(order, entries) ==
  IF entries = <<>> THEN <<>>
  ELSE InsertEntry(order, SortEntries(order, SubSeq(entries, 1, Len(entries) - 1)),
                   entries[Len(entries)])

\* the entries other than hmac and signature, sorted by name
SortedParams(params) ==
  SortEntries("localeCompare",
              ParamsDelete(ParamsDelete(params, Key_hmac), Key_signature))
\* .map(([key, value]) => `${key}=${value}`).join('&'): the text that is signed
RECURSIVE Join(_)
Join(entries) ==
  IF entries = <<>> THEN <<>>
  ELSE entries[1][1] \o <<"=">> \o entries[1][2]
       \o (IF Len(entries) > 1 THEN <<"&">> \o Join(Tail(entries)) ELSE <<>>)

\* a webhook verification that accepts whatever signature is present
verifyWebhookHmacPresence(body, hmac, secret) == hmac # NoHmac

\* a verification that accepts whatever signature is present
verifyShopifyHmacPresence(params, secret) ==
  ParamsGet(params, Key_hmac, NoHmac) # NoHmac

verifyShopifyHmac(params, secret) ==
  IF ParamsGet(params, Key_hmac, NoHmac) = NoHmac THEN FALSE
  ELSE timingSafeEqual(ParamsGet(params, Key_hmac, NoHmac),
                       HmacSha256("hex", secret, Join(SortedParams(params))))

verifyWebhookHmac(body, hmac, secret) ==
  IF hmac = NoHmac \/ secret = Absent \/ body = <<>> THEN FALSE
  ELSE timingSafeEqual(hmac, HmacSha256("base64", secret, body))

(***************************************************************************)
(* State                                                                   *)
(***************************************************************************)
VARIABLES
  AUTH_STATES,   \* env.AUTH_STATES: state token -> shop
  SHOPS,         \* env.SHOPS: shop -> {accessToken, scope}
  API_KEYS,      \* env.API_KEYS: key:<apiKey> -> {shop, accessToken}
  stateCount,    \* state tokens handed out by crypto.randomUUID() so far
  keyCount,      \* API keys handed out by crypto.randomUUID() so far
  expired,       \* state tokens whose AUTH_STATES entry outlived its TTL (history)
  handler,       \* handler[p]: the route the request in slot p was sent to
  pc,            \* pc[p]: the await the request in slot p is suspended at
  req,           \* req[p]: the request's inputs
  loc,           \* loc[p]: the handler's local variables
  resp,          \* resp[p]: the response, once pc[p] = "done"
  log,           \* log[p]: what the request has done so far (history)
  call,          \* one application of a function of hmac.js: inputs and result
  client         \* a ShopifyAuthClient of the extension and the api() call it runs

server == <<AUTH_STATES, SHOPS, API_KEYS, stateCount, keyCount, expired,
            handler, pc, req, loc, resp, log>>
vars == <<AUTH_STATES, SHOPS, API_KEYS, stateCount, keyCount, expired,
          handler, pc, req, loc, resp, log, call, client>>
stores == <<AUTH_STATES, SHOPS, API_KEYS>>

\* no function is being applied; no client has been constructed
NoCall == [fn |-> "", args |-> <<>>, returned |-> FALSE, result |-> FALSE, steps |-> 0]
AuthCalls == 1..NumAuthCalls
\* an authenticate() call that has not been made
NoAuthCall == [pc |-> "idle", shop |-> NoShop, error |-> "", cached |-> FALSE]
NoClient ==
  [pc |-> "none", retryAttempts |-> 0, shop |-> NoShop, token |-> Absent,
   tokenExpiry |-> Absent, stored |-> <<>>, keys |-> 0, retry |-> FALSE,
   attempts |-> 0, authShop |-> NoShop, sent |-> <<>>, delays |-> <<>>,
   reauth |-> <<>>, refresh |-> FALSE, outcome |-> "", error |-> "",
   status |-> 0, authMethod |-> "", authInProgress |-> FALSE,
   calls |-> [i \in AuthCalls |-> NoAuthCall]]

NoTokenData == [access_token |-> Absent, scope |-> Absent]
NoBody == <<>>
NoReq == [code |-> Absent, shop |-> NoShop, state |-> Absent, hmac |-> NoHmac,
          topic |-> Absent, body |-> NoBody, authorization |-> <<>>,
          endpoint |-> Absent, method |-> Absent, data |-> Absent,
          embedded |-> Absent, host |-> <<>>]
NoLoc == [savedShop |-> NoShop, tokenData |-> NoTokenData]
NoResp == [status |-> 0, type |-> "", error |-> "", message |-> "", data |-> <<>>]
\* ops: the KV operations made; exchange, webhooks, proxy: the upstream calls
\* made; stateOk: the state looked up was the shop's; exchanged: how the token
\* exchange ended; replaced: the put of the shop's record overwrote another
\* token; regFailed: a webhook registration failed; sent: the proxied request;
\* upstream: what fetch() of the proxied request produced
NoUpstream == [reached |-> FALSE, status |-> 0, body |-> <<>>]
NoLog == [ops |-> {}, exchange |-> 0, webhooks |-> 0, proxy |-> 0,
          stateOk |-> FALSE, exchanged |-> "", replaced |-> FALSE,
          regFailed |-> FALSE, sent |-> <<>>, upstream |-> NoUpstream]

(***************************************************************************)
(* errors.js, error-handler.js, index.js: an error thrown by a handler is  *)
(* turned into a response by handleError.                                  *)
(***************************************************************************)
ERROR_MESSAGES ==
  [INVALID_SHOP |-> "Invalid shop domain",
   INVALID_HMAC |-> "Invalid HMAC signature",
   INVALID_STATE |-> "Invalid state parameter",
   INVALID_WEBHOOK |-> "Invalid webhook signature",
   APP_NOT_INSTALLED |-> "App not installed",
   MISSING_AUTH |-> "Missing or invalid authorization",
   INVALID_API_KEY |-> "Invalid API key",
   MISSING_ENDPOINT |-> "Missing endpoint parameter",
   MISSING_OAUTH_PARAMS |-> "Missing required OAuth parameters",
   FAILED_TOKEN_EXCHANGE |-> "Failed to exchange code for token",
   FAILED_PROXY |-> "Failed to proxy request"]

handleError(name, statusCode, message) ==
  [status |-> statusCode,
   type |-> IF name \in {"ConfigurationError", "ValidationError"} THEN "html" ELSE "json",
   error |-> name, message |-> message, data |-> <<>>]
ValidationError(message) == handleError("ValidationError", 400, message)
AuthenticationError(message, statusCode) ==
  handleError("AuthenticationError", statusCode, message)
\* an error that is not one of the three classes has no statusCode: 500
OtherError(message) == handleError("TypeError", 500, message)
Redirect(target) ==
  [status |-> 302, type |-> "redirect", error |-> "", message |-> "", data |-> target]
createJsonResponse(data, status) ==
  [status |-> status, type |-> "json", error |-> "", message |-> "", data |-> data]

\* a request is accepted once no response is waiting to be sent; the slots are
\* interchangeable, and it takes the first idle one
Responding == \E q \in Procs : pc[q] = "done"
Free(p) == pc[p] = "idle" /\ ~Responding /\ \A q \in 1..(p - 1) : pc[q] # "idle"
Running(p, at) == pc[p] = at /\ ~Responding

\* slot p takes a new request: its locals, response and history start afresh
Accept(p, route, request, at) ==
  /\ handler' = [handler EXCEPT ![p] = route]
  /\ req' = [req EXCEPT ![p] = request]
  /\ pc' = [pc EXCEPT ![p] = at]

Finish(p, response) ==
  /\ pc' = [pc EXCEPT ![p] = "done"]
  /\ resp' = [resp EXCEPT ![p] = response]

\* the worker after deployment: empty namespaces and no request in flight
InitServer ==
  /\ AUTH_STATES = EmptyKV
  /\ SHOPS = EmptyKV
  /\ API_KEYS = EmptyKV
  /\ stateCount = 0
  /\ keyCount = 0
  /\ expired = {}
  /\ handler = [p \in Procs |-> ""]
  /\ pc = [p \in Procs |-> "idle"]
  /\ req = [p \in Procs |-> NoReq]
  /\ loc = [p \in Procs |-> NoLoc]
  /\ resp = [p \in Procs |-> NoResp]
  /\ log = [p \in Procs |-> NoLog]

Init ==
  /\ InitServer
  /\ call = NoCall
  /\ client = NoClient

(***************************************************************************)
(* handleOAuth: GET /auth?shop=                                            *)
(***************************************************************************)
\* `${env.APP_URL || url.origin}/auth/callback`
RedirectUri == "/auth/callback"

\* an authorization URL that leaves the state parameter out
buildShopifyAuthUrlNoState(shop, clientId, scope, redirectUri, state) ==
  <<shop, "/admin/oauth/authorize", clientId, scope, redirectUri, Absent>>

\* `https://${shop}/admin/oauth/authorize?${params}` with params client_id,
\* scope, redirect_uri, state
buildShopifyAuthUrl(shop, clientId, scope, redirectUri, state) ==
  <<shop, "/admin/oauth/authorize", clientId, scope, redirectUri, state>>

handleOAuth(p) ==
  /\ Free(p)
  /\ \E shop \in ShopInputs :
       /\ Accept(p, "/auth", [NoReq EXCEPT !.shop = shop], "done")
       /\ IF ~isValidShopDomain(shop)
          THEN /\ resp' = [resp EXCEPT ![p] = ValidationError(ERROR_MESSAGES.INVALID_SHOP)]
               /\ UNCHANGED <<AUTH_STATES, stateCount, log>>
          ELSE /\ stateCount < MaxStates
               /\ stateCount' = stateCount + 1
               /\ AUTH_STATES' = KVPut(AUTH_STATES, StateUUID[stateCount + 1], shop,
                                       STATE_TTL_SECONDS)
               /\ resp' = [resp EXCEPT ![p] =
                    Redirect(buildShopifyAuthUrl(shop, SHOPIFY_API_KEY, OAUTH_SCOPES,
                                                 RedirectUri, StateUUID[stateCount + 1]))]
               /\ log' = [log EXCEPT ![p].ops = {"AUTH_STATES.put"}]
  /\ UNCHANGED <<call, client, expired, SHOPS, API_KEYS, keyCount, loc>>

(***************************************************************************)
(* handleOAuthCallback: GET /auth/callback?code=&shop=&state=&hmac=        *)
(***************************************************************************)
IssuedStates == {StateUUID[i] : i \in 1..stateCount}

\* the hmac values a caller can present with the other three parameters: none,
\* the provider's signature, and a signature made with another secret
\* what the provider signs for a callback: code, shop and state in the order
\* of their names
ProviderMessage(code, shop, state) ==
  Join(<<<<Key_code, <<code>>>>, <<Key_shop, shop>>, <<Key_state, <<state>>>>>>)
HmacInputs(code, shop, state) ==
  {NoHmac,
   HmacSha256("hex", SHOPIFY_API_SECRET, ProviderMessage(code, shop, state)),
   HmacSha256("hex", OtherSecret, ProviderMessage(code, shop, state))}
\* url.searchParams of a callback request, in the order of the query string
\* a code or a state token is a text of one symbol, which stands for
\* characters other than & and =
SearchParams(params) ==
  <<<<Key_state, <<params.state>>>>, <<Key_shop, params.shop>>,
    <<Key_hmac, params.hmac>>, <<Key_code, <<params.code>>>>>>

\* a parameter check that forgets the hmac
RequiredParamsPresentButHmac(params) ==
  /\ params.code # Absent
  /\ params.shop # NoShop
  /\ params.state # Absent

\* if (!code || !shop || !state || !hmac)
RequiredParamsPresent(params) ==
  /\ params.code # Absent
  /\ params.shop # NoShop
  /\ params.state # Absent
  /\ params.hmac # NoHmac

\* a state check that lets an absent entry through as a first use
StateMatchesOrAbsent(savedShop, shop) == savedShop = NoShop \/ savedShop = shop

\* if (savedShop !== shop) throw
StateMatches(savedShop, shop) == savedShop = shop

\* lines 127-140: parse, validate, look the state up and compare
handleOAuthCallback(p) ==
  /\ Free(p)
  /\ \E code \in Codes \cup {Absent}, shop \in ShopInputs,
        state \in IssuedStates \cup {Forged, Absent} :
       \E hmac \in HmacInputs(code, shop, state) :
         LET params == [NoReq EXCEPT !.code = code, !.shop = shop,
                                     !.state = state, !.hmac = hmac]
             savedShop == KVGet(AUTH_STATES, state, NoShop)
         IN /\ handler' = [handler EXCEPT ![p] = "/auth/callback"]
            /\ req' = [req EXCEPT ![p] = params]
            /\ IF ~RequiredParamsPresent(params)
               THEN /\ Finish(p, ValidationError(ERROR_MESSAGES.MISSING_OAUTH_PARAMS))
                    /\ UNCHANGED <<loc, log>>
               ELSE /\ loc' = [loc EXCEPT ![p].savedShop = savedShop]
                    /\ log' = [log EXCEPT ![p].ops = @ \cup {"AUTH_STATES.get"},
                                          ![p].stateOk = (savedShop = shop)]
                    /\ IF StateMatches(savedShop, shop)
                       THEN /\ pc' = [pc EXCEPT ![p] = "cb_delete"]
                            /\ UNCHANGED resp
                       ELSE Finish(p, AuthenticationError(ERROR_MESSAGES.INVALID_STATE, 403))
  /\ UNCHANGED <<call, client, expired, stores, stateCount, keyCount>>

(***************************************************************************)
(* shopify.js: the upstream calls of the callback                          *)
(***************************************************************************)
\* what fetch() of the token endpoint can produce: a response (ok or not)
\* carrying {access_token, scope}, or a rejection when the upstream is
\* unreachable
\* the scope the shop grants with a token: one grant leaves a scope out
GrantedScope(t) == IF t = "t1" THEN OAUTH_SCOPES ELSE "read_orders,read_products"
TokenOutcomes ==
  {[reached |-> TRUE, ok |-> TRUE,
    json |-> [access_token |-> t, scope |-> GrantedScope(t)]] : t \in AccessTokens}
  \cup {[reached |-> TRUE, ok |-> FALSE, json |-> NoTokenData],
        [reached |-> FALSE, ok |-> FALSE, json |-> NoTokenData]}

\* an exchange that does not look at response.ok
ResponseOkUnchecked(response) == TRUE

\* if (!response.ok) throw new AuthenticationError(FAILED_TOKEN_EXCHANGE)
ResponseOk(response) == response.ok

\* exchangeCodeForToken: the data returned, or the error thrown
exchangeCodeForToken(response) ==
  IF ~response.reached THEN [thrown |-> OtherError("fetch failed"), data |-> NoTokenData]
  ELSE IF ~ResponseOk(response)
  THEN [thrown |-> AuthenticationError(ERROR_MESSAGES.FAILED_TOKEN_EXCHANGE, 401),
        data |-> NoTokenData]
  ELSE [thrown |-> NoResp, data |-> response.json]

\* lines 142-153: await env.AUTH_STATES.delete(state); verify the HMAC;
\* const tokenData = await exchangeCodeForToken(shop, code, env)
CallbackExchange(p) ==
  /\ Running(p, "cb_delete")
  /\ AUTH_STATES' = KVDelete(AUTH_STATES, req[p].state)
  /\ IF ~verifyShopifyHmac(SearchParams(req[p]), SHOPIFY_API_SECRET)
     THEN /\ log' = [log EXCEPT ![p].ops = @ \cup {"AUTH_STATES.delete"}]
          /\ Finish(p, AuthenticationError(ERROR_MESSAGES.INVALID_HMAC, 403))
          /\ UNCHANGED loc
     ELSE \E response \in TokenOutcomes :
          LET result == exchangeCodeForToken(response)
          IN /\ log' = [log EXCEPT ![p].ops = @ \cup {"AUTH_STATES.delete"},
                                   ![p].exchange = @ + 1,
                                   ![p].exchanged =
                                      IF ~response.reached THEN "unreachable"
                                      ELSE IF response.ok THEN "ok" ELSE "not ok"]
             /\ IF result.thrown # NoResp
                THEN /\ Finish(p, result.thrown)
                     /\ UNCHANGED loc
                ELSE /\ loc' = [loc EXCEPT ![p].tokenData = result.data]
                     /\ pc' = [pc EXCEPT ![p] = "cb_store"]
                     /\ UNCHANGED resp
  /\ UNCHANGED <<call, client, expired, SHOPS, API_KEYS, stateCount, keyCount, handler, req>>

\* line 117 when the shop's server never answers: await fetch(...) is given no
\* signal and no timeout, so the promise never settles and the callback stays
\* suspended at it
CallbackExchangeAwaits(p) ==
  /\ Running(p, "cb_delete")
  /\ verifyShopifyHmac(SearchParams(req[p]), SHOPIFY_API_SECRET)
  /\ AUTH_STATES' = KVDelete(AUTH_STATES, req[p].state)
  /\ log' = [log EXCEPT ![p].ops = @ \cup {"AUTH_STATES.delete"},
                        ![p].exchange = @ + 1]
  /\ pc' = [pc EXCEPT ![p] = "cb_fetch"]
  /\ UNCHANGED <<call, client, expired, SHOPS, API_KEYS, stateCount, keyCount, handler, req,
                 loc, resp>>

\* JSON.stringify({accessToken, scope, installedAt})
ShopData(tokenData) ==
  [accessToken |-> tokenData.access_token, scope |-> tokenData.scope]
NoShopData == [accessToken |-> Absent, scope |-> Absent]

\* a store that keeps the record of a shop that is already installed
storeShopDataIfNew(kv, shop, tokenData) ==
  IF shop \in DOMAIN kv THEN kv ELSE KVPut(kv, shop, ShopData(tokenData), NoTtl)

\* a store that writes the new token into the record that is there
storeShopDataMerged(kv, shop, tokenData) ==
  IF shop \in DOMAIN kv
  THEN KVPut(kv, shop, [kv[shop].value EXCEPT !.accessToken = tokenData.access_token],
             NoTtl)
  ELSE KVPut(kv, shop, ShopData(tokenData), NoTtl)

\* env.SHOPS.put(shop, JSON.stringify({...})): no expirationTtl
storeShopData(kv, shop, tokenData) == KVPut(kv, shop, ShopData(tokenData), NoTtl)

MandatoryWebhooks == <<"customers/redact", "shop/redact", "customers/data_request">>
\* what fetch() of webhooks.json can produce
WebhookOutcomes == {"ok", "not ok", "unreachable"}

\* a loop without the try/catch: an unreachable upstream ends the callback
RegistrationThrowsUncaught(outcome) == outcome = "unreachable"

\* try { await fetch(...) } catch (error) { console.error(...) }: the response
\* is not looked at and a rejection is caught, so no outcome leaves the loop
RegistrationThrows(outcome) == FALSE

\* the first webhook whose registration leaves the loop with an error, or 0
FirstThrow(outcomes) ==
  IF \E i \in DOMAIN outcomes : RegistrationThrows(outcomes[i])
  THEN CHOOSE i \in DOMAIN outcomes :
         /\ RegistrationThrows(outcomes[i])
         /\ \A j \in 1..(i - 1) : ~RegistrationThrows(outcomes[j])
  ELSE 0

\* lines 155-162: await storeShopData(shop, tokenData, env); await
\* registerMandatoryWebhooks(shop, access_token, env), one fetch per webhook,
\* in order; return the redirect to the app in the shop's admin
CallbackStore(p) ==
  /\ Running(p, "cb_store")
  /\ SHOPS' = storeShopData(SHOPS, req[p].shop, loc[p].tokenData)
  /\ \E outcomes \in [DOMAIN MandatoryWebhooks -> WebhookOutcomes] :
       LET thrown == FirstThrow(outcomes)
           attempts == IF thrown = 0 THEN Len(MandatoryWebhooks) ELSE thrown
       IN /\ log' = [log EXCEPT ![p].ops = @ \cup {"SHOPS.put"},
                                ![p].replaced =
                                   /\ req[p].shop \in DOMAIN SHOPS
                                   /\ SHOPS[req[p].shop].value.accessToken
                                        # loc[p].tokenData.access_token,
                                ![p].webhooks = attempts,
                                ![p].regFailed =
                                   \E i \in 1..attempts : outcomes[i] # "ok"]
          /\ IF thrown # 0
             THEN Finish(p, OtherError("fetch failed"))
             ELSE Finish(p, Redirect(<<req[p].shop, "/admin/apps">>))
  /\ UNCHANGED <<call, client, expired, AUTH_STATES, API_KEYS, stateCount, keyCount, handler, req, loc>>

\* line 156 when the shop's server never answers the first registration: the
\* record is stored and the callback stays suspended at await fetch(...)
CallbackStoreAwaits(p) ==
  /\ Running(p, "cb_store")
  /\ SHOPS' = storeShopData(SHOPS, req[p].shop, loc[p].tokenData)
  /\ log' = [log EXCEPT ![p].ops = @ \cup {"SHOPS.put"}, ![p].webhooks = 1]
  /\ pc' = [pc EXCEPT ![p] = "cb_register"]
  /\ UNCHANGED <<call, client, expired, AUTH_STATES, API_KEYS, stateCount, keyCount, handler,
                 req, loc, resp>>

(***************************************************************************)
(* handleExtensionAuth: POST /api/auth {shop}                              *)
(***************************************************************************)
\* a check that takes every shop for installed
InstalledAlways(shopData) == TRUE

\* if (!shopData): env.SHOPS.get(shop, 'json') gave a record
Installed(shopData) == shopData # NoShopData

\* lines 166-189: parse, validate, look the shop up
handleExtensionAuth(p) ==
  /\ Free(p)
  /\ \E shop \in ShopInputs :
       LET shopData == KVGet(SHOPS, shop, NoShopData)
       IN /\ handler' = [handler EXCEPT ![p] = "/api/auth"]
          /\ req' = [req EXCEPT ![p] = [NoReq EXCEPT !.shop = shop]]
          /\ IF ~isValidShopDomain(shop)
             THEN /\ Finish(p, createJsonResponse(<<ERROR_MESSAGES.INVALID_SHOP>>, 400))
                  /\ UNCHANGED <<loc, log>>
             ELSE /\ log' = [log EXCEPT ![p].ops = {"SHOPS.get"}]
                  /\ IF ~Installed(shopData)
                     THEN /\ Finish(p, createJsonResponse(
                                         <<ERROR_MESSAGES.APP_NOT_INSTALLED>>, 403))
                          /\ UNCHANGED loc
                     ELSE /\ loc' = [loc EXCEPT ![p].tokenData =
                                       [access_token |-> shopData.accessToken,
                                        scope |-> shopData.scope]]
                          /\ pc' = [pc EXCEPT ![p] = "ea_put"]
                          /\ UNCHANGED resp
  /\ UNCHANGED <<call, client, expired, stores, stateCount, keyCount>>

NoKeyData == [shop |-> NoShop, accessToken |-> Absent]
\* `key:${apiKey}`
KeyName(apiKey) == <<"key:", apiKey>>

\* a put that first removes the keys issued to the shop before
ReplaceKeysOfShop(kv, key, value, ttl) ==
  KVPut([k \in {j \in DOMAIN kv : kv[j].value.shop # value.shop} |-> kv[k]],
        key, value, ttl)

\* await env.API_KEYS.put(`key:${apiKey}`, JSON.stringify({shop, accessToken}),
\*                        {expirationTtl})
PutKey(kv, key, value, ttl) == KVPut(kv, key, value, ttl)

\* const apiKey = crypto.randomUUID(); await env.API_KEYS.put(`key:${apiKey}`, ...)
\* while randomUUID() has handed out fewer than maxKeys keys
ExtensionAuthPutKeyOf(p, maxKeys) ==
  /\ Running(p, "ea_put")
  /\ keyCount < maxKeys
  /\ keyCount' = keyCount + 1
  /\ API_KEYS' = PutKey(API_KEYS, KeyName(KeyUUID[keyCount + 1]),
                        [shop |-> req[p].shop,
                         accessToken |-> loc[p].tokenData.access_token],
                        SecondsPerDay * API_KEY_TTL_DAYS)
  /\ log' = [log EXCEPT ![p].ops = @ \cup {"API_KEYS.put"}]
  /\ Finish(p, createJsonResponse(<<"success", KeyUUID[keyCount + 1], req[p].shop>>, 200))
  /\ UNCHANGED <<call, client, expired, AUTH_STATES, SHOPS, stateCount, handler, req, loc>>

ExtensionAuthPutKey(p) == ExtensionAuthPutKeyOf(p, MaxKeys)

(***************************************************************************)
(* handleAPIProxy: POST /api/proxy {endpoint, method, data}                *)
(***************************************************************************)
IssuedKeys == {KeyUUID[i] : i \in 1..keyCount}
\* the Authorization header: none, or a scheme and what follows it
NoAuth == <<>>
Authorizations ==
  {NoAuth, <<"Basic ", Forged>>}
  \cup {<<"Bearer ", key>> : key \in IssuedKeys \cup {Forged, Absent}}
Endpoints == {Absent, "/orders.json"}
Methods == {Absent, "GET", "HEAD", "POST"}
Datas == {Absent, "data"}
\* the request body is the JSON text of an object with these fields, or the
\* JSON text null, which request.json() parses to null
NullJson == <<"null">>
ProxyBodies == {NoBody, NullJson}

\* if (!authHeader || !authHeader.startsWith('Bearer ')) return null;
\* return authHeader.substring(7)
extractApiKey(authHeader) ==
  IF authHeader = NoAuth THEN Absent
  ELSE IF authHeader[1] # "Bearer " THEN Absent
  ELSE authHeader[2]

\* a check that lets a key without an entry through
KeyResolvesAlways(keyData) == TRUE

\* a check that also asks for the record of the key's shop
KeyResolvesInstalled(keyData) ==
  keyData # NoKeyData /\ keyData.shop \in DOMAIN SHOPS

\* if (!keyData): env.API_KEYS.get(`key:${apiKey}`, 'json') gave an entry
KeyResolves(keyData) == keyData # NoKeyData

\* body texts: JSON.stringify(value) writes the text <<"json", value>>, which
\* response.json() parses back to value; the other texts are not JSON
JsonText(value) == <<"json", value>>
EmptyText == <<>>
HtmlText == <<"<html>">>
JsonParses(text) == Len(text) = 2 /\ text[1] = "json"
JsonParse(text) == text[2]

\* what fetch() of the shop's admin API can produce: a rejection (upstream
\* unreachable), or a response with a status and a body text
UpstreamOutcomes ==
  {NoUpstream,
   [reached |-> TRUE, status |-> 200, body |-> JsonText(<<"orders">>)],
   [reached |-> TRUE, status |-> 404, body |-> JsonText(<<"errors">>)],
   [reached |-> TRUE, status |-> 502, body |-> HtmlText],
   [reached |-> TRUE, status |-> 204, body |-> EmptyText]}

\* a request that is always a GET without a body
UpstreamRequestGetOnly(shop, endpoint, method, data, accessToken) ==
  <<shop, endpoint, "GET", Absent, accessToken>>

\* a request that carries the token of the shop's record as it is now
UpstreamRequestCurrentToken(shop, endpoint, method, data, accessToken) ==
  <<shop, endpoint, method, IF method # "GET" /\ data # Absent THEN data ELSE Absent,
    KVGet(SHOPS, shop, NoShopData).accessToken>>

\* the request proxyToShopify builds: the shop of the URL, the endpoint, the
\* method, options.body (set only if method !== 'GET' && data) and the
\* X-Shopify-Access-Token header
UpstreamRequest(shop, endpoint, method, data, accessToken) ==
  <<shop, endpoint, method, IF method # "GET" /\ data # Absent THEN data ELSE Absent,
    accessToken>>

\* proxyToShopify: {data, status} returned, or the error thrown by fetch() or
\* by response.json()
proxyToShopify(response) ==
  IF ~response.reached THEN [thrown |-> TRUE, data |-> <<>>, status |-> 0]
  ELSE IF ~JsonParses(response.body) THEN [thrown |-> TRUE, data |-> <<>>, status |-> 0]
  ELSE [thrown |-> FALSE, data |-> JsonParse(response.body), status |-> response.status]

handleAPIProxy(p) ==
  /\ Free(p)
  /\ \E authorization \in Authorizations, endpoint \in Endpoints,
        m \in Methods, data \in Datas, body \in ProxyBodies :
       LET request == [NoReq EXCEPT !.authorization = authorization,
                                    !.endpoint = endpoint,
                                    !.method = m, !.data = data, !.body = body]
           apiKey == extractApiKey(authorization)
           keyData == KVGet(API_KEYS, KeyName(apiKey), NoKeyData)
           method == IF m = Absent THEN "GET" ELSE m
       IN /\ body = NullJson => (endpoint = Absent /\ m = Absent /\ data = Absent)
          /\ Accept(p, "/api/proxy", request, "done")
          /\ IF apiKey = Absent
             THEN /\ resp' = [resp EXCEPT ![p] =
                       createJsonResponse(<<ERROR_MESSAGES.MISSING_AUTH>>, 401)]
                  /\ UNCHANGED log
             ELSE IF ~KeyResolves(keyData)
             THEN /\ resp' = [resp EXCEPT ![p] =
                       createJsonResponse(<<ERROR_MESSAGES.INVALID_API_KEY>>, 401)]
                  /\ log' = [log EXCEPT ![p].ops = {"API_KEYS.get"}]
             \* const { endpoint, method = 'GET', data } = body throws a
             \* TypeError when body is null
             ELSE IF body = NullJson
             THEN /\ resp' = [resp EXCEPT ![p] =
                       OtherError("Cannot destructure property 'endpoint'")]
                  /\ log' = [log EXCEPT ![p].ops = {"API_KEYS.get"}]
             ELSE IF endpoint = Absent
             THEN /\ resp' = [resp EXCEPT ![p] =
                       createJsonResponse(<<ERROR_MESSAGES.MISSING_ENDPOINT>>, 400)]
                  /\ log' = [log EXCEPT ![p].ops = {"API_KEYS.get"}]
             ELSE \E upstream \in UpstreamOutcomes :
                  LET shopifyResponse == proxyToShopify(upstream)
                  IN /\ log' = [log EXCEPT
                          ![p].ops = {"API_KEYS.get"}, ![p].proxy = 1,
                          ![p].sent = UpstreamRequest(keyData.shop, endpoint, method,
                                                      data, keyData.accessToken),
                          ![p].upstream = upstream]
                     \* try { ... } catch (error) { return FAILED_PROXY, 500 }
                     /\ resp' = [resp EXCEPT ![p] =
                          IF shopifyResponse.thrown
                          THEN createJsonResponse(<<ERROR_MESSAGES.FAILED_PROXY>>, 500)
                          ELSE createJsonResponse(shopifyResponse.data,
                                                  shopifyResponse.status)]
  /\ UNCHANGED <<call, client, expired, stores, stateCount, keyCount, loc>>

(***************************************************************************)
(* handleWebhook: POST /webhooks/<topic>                                   *)
(***************************************************************************)
Topics == {"customers/redact", "shop/redact", "customers/data_request"}
\* a raw body is the JSON text of {shop_domain}, or a text that is not JSON;
\* the empty body is NoBody
Body(shop) == <<<<"shop_domain", shop>>>>
NotJsonBody == <<<<"not json", NoShop>>>>
Bodies == {Body(shop) : shop \in ShopInputs} \cup {NotJsonBody, NoBody}
\* the signatures a caller can present with a body: none, the provider's, one
\* made with another secret, and the provider's signature of another body
OtherBody(body) == IF body = Body(ShopA) THEN Body(ShopB) ELSE Body(ShopA)
WebhookHmacInputs(body) ==
  {NoHmac,
   HmacSha256("base64", SHOPIFY_API_SECRET, body),
   HmacSha256("base64", OtherSecret, body),
   HmacSha256("base64", SHOPIFY_API_SECRET, OtherBody(body))}

\* JSON.parse(body) throws a SyntaxError for a text that is not JSON
BodyParses(body) == body # NoBody /\ body[1][1] = "shop_domain"
\* JSON.parse(body).shop_domain
ShopDomain(body) == body[1][2]

\* a redaction that leaves the shop's record where it is
handleShopRedactKept(kv, data) == kv

\* const shop = data.shop_domain; if (shop) await env.SHOPS.delete(shop)
handleShopRedact(kv, data) ==
  IF ShopDomain(data) # NoShop THEN KVDelete(kv, ShopDomain(data)) ELSE kv

\* a dispatch in which customers/redact deletes the shop's record as well
DispatchAnyRedact(kv, topic, data) ==
  IF topic \in {"shop/redact", "customers/redact"} THEN handleShopRedact(kv, data) ELSE kv

\* switch (topic): handleCustomerRedact and handleCustomerDataRequest only log
Dispatch(kv, topic, data) ==
  IF topic = "shop/redact" THEN handleShopRedact(kv, data) ELSE kv

handleWebhook(p) ==
  /\ Free(p)
  /\ \E topic \in Topics, body \in Bodies :
       \E hmac \in WebhookHmacInputs(body) :
         /\ Accept(p, "/webhooks", [NoReq EXCEPT !.topic = topic, !.body = body,
                                                 !.hmac = hmac], "done")
         /\ IF ~verifyWebhookHmac(body, hmac, SHOPIFY_API_SECRET)
            THEN /\ resp' = [resp EXCEPT ![p] =
                      AuthenticationError(ERROR_MESSAGES.INVALID_WEBHOOK, 401)]
                 /\ UNCHANGED <<SHOPS, log>>
            ELSE IF ~BodyParses(body)
            THEN /\ resp' = [resp EXCEPT ![p] =
                      handleError("SyntaxError", 500, "Unexpected token")]
                 /\ UNCHANGED <<SHOPS, log>>
            ELSE /\ resp' = [resp EXCEPT ![p] =
                      [NoResp EXCEPT !.status = 200, !.type = "empty"]]
                 /\ SHOPS' = Dispatch(SHOPS, topic, body)
                 /\ log' = [log EXCEPT ![p].ops =
                      IF topic = "shop/redact" /\ ShopDomain(body) # NoShop
                      THEN {"SHOPS.delete"} ELSE {}]
  /\ UNCHANGED <<call, client, expired, AUTH_STATES, API_KEYS, stateCount, keyCount, loc>>

(***************************************************************************)
(* handleRootPath: GET /?shop=&embedded=&host=                             *)
(***************************************************************************)
NoHost == <<>>
\* a host parameter is base64 text: it decodes to some text or atob() throws
HostOf(text) == <<"base64", text>>
BadHost == <<"not base64">>
Hosts == {NoHost, BadHost, HostOf(ShopA \o <<"/", "a", "d", "m", "i", "n">>)}

includes(text, part) ==
  \E i \in 1..(Len(text) - Len(part) + 1) : SubSeq(text, i, i + Len(part) - 1) = part

isValidHost(host, shop) ==
  IF host = NoHost THEN FALSE
  ELSE IF host = BadHost THEN FALSE
  ELSE includes(host[2], shop)

checkInstallation(shop) == KVGet(SHOPS, shop, NoShopData) # NoShopData

createAccessDeniedPage ==
  [NoResp EXCEPT !.status = 403, !.type = "html", !.message = "Access Denied"]
createEmbeddedApp ==
  [NoResp EXCEPT !.status = 200, !.type = "html", !.message = "embedded app"]

\* an embedded request that is denied when the host does not name the shop
EmbeddedRequestFailClosed(shop, host) ==
  IF host = NoHost \/ ~isValidHost(host, shop) THEN createAccessDeniedPage
  ELSE createEmbeddedApp

\* if (embedded === '1'): without a host the access-denied page; otherwise
\* isValidHost(host, shop) only decides what is logged
EmbeddedRequest(shop, host) ==
  IF host = NoHost THEN createAccessDeniedPage ELSE createEmbeddedApp

handleRootPath(p) ==
  /\ Free(p)
  /\ \E shop \in ShopInputs, embedded \in {Absent, "1"}, host \in Hosts :
       /\ Accept(p, "/", [NoReq EXCEPT !.shop = shop, !.embedded = embedded,
                                       !.host = host], "done")
       /\ log' = [log EXCEPT ![p].ops =
                              IF isValidShopDomain(shop) THEN {"SHOPS.get"} ELSE {}]
       /\ resp' = [resp EXCEPT ![p] =
            IF shop = NoShop
            THEN [NoResp EXCEPT !.status = 200, !.type = "html", !.message = "landing"]
            ELSE IF ~isValidShopDomain(shop)
            THEN ValidationError(ERROR_MESSAGES.INVALID_SHOP)
            ELSE IF ~checkInstallation(shop)
            THEN Redirect(<<shop, "/auth">>)
            ELSE IF embedded = "1"
            THEN EmbeddedRequest(shop, host)
            ELSE Redirect(<<shop, "/admin/apps">>)]
  /\ UNCHANGED <<call, client, expired, stores, stateCount, keyCount, loc>>

(***************************************************************************)
(* Workers KV expiry: an entry put with an expirationTtl disappears once   *)
(* the TTL has elapsed; an entry put without one never does.               *)
(***************************************************************************)
ExpireState ==
  /\ ~Responding
  /\ \E k \in DOMAIN AUTH_STATES :
       /\ AUTH_STATES[k].expirationTtl # NoTtl
       /\ AUTH_STATES' = KVExpire(AUTH_STATES, k)
       /\ expired' = expired \cup {k}
  /\ UNCHANGED <<call, client, SHOPS, API_KEYS, stateCount, keyCount, handler, pc, req, loc,
               resp, log>>

ExpireKey ==
  /\ ~Responding
  /\ \E k \in DOMAIN API_KEYS :
       /\ API_KEYS[k].expirationTtl # NoTtl
       /\ API_KEYS' = KVExpire(API_KEYS, k)
  /\ UNCHANGED <<call, client, expired, AUTH_STATES, SHOPS, stateCount, keyCount, handler, pc, req, loc, resp, log>>

\* the response of slot p is sent; the slot is free for the next request
Respond(p) ==
  /\ pc[p] = "done"
  /\ pc' = [pc EXCEPT ![p] = "idle"]
  /\ handler' = [handler EXCEPT ![p] = ""]
  /\ req' = [req EXCEPT ![p] = NoReq]
  /\ loc' = [loc EXCEPT ![p] = NoLoc]
  /\ resp' = [resp EXCEPT ![p] = NoResp]
  /\ log' = [log EXCEPT ![p] = NoLog]
  /\ UNCHANGED <<call, client, expired, stores, stateCount, keyCount>>

(***************************************************************************)
(* extension/auth.js: ShopifyAuthClient.  client.shop, client.token and    *)
(* client.tokenExpiry are the object's fields and client.stored is the     *)
(* entry in browser.storage.local; retry and attempts belong to the api()  *)
(* call that runs; authShop, sent, delays, reauth and refresh are its      *)
(* history: the shop the client was authenticated for when the call        *)
(* started, the token of every request sent, every setTimeout delay in ms, *)
(* the argument of every authenticate() made after a 401, and whether one  *)
(* was made; status is the status of the last response received.          *)
(***************************************************************************)
retryDelay == 1000
DefaultRetryAfter == 2
RetryAttemptsOptions == {3, 4}      \* the default and one configured value
Later == "later"                    \* a tokenExpiry after Date.now()
NoHeader == 0

\* what the client can receive from POST /api/proxy: fetch() rejects, or a
\* response with a status and, with 429, possibly a Retry-After header
ProxyResponses ==
  {[reached |-> FALSE, status |-> 0, retryAfter |-> NoHeader]}
  \cup {[reached |-> TRUE, status |-> st, retryAfter |-> NoHeader] :
          st \in {200, 401, 429, 500}}
  \cup {[reached |-> TRUE, status |-> 429, retryAfter |-> 4]}
\* what _requestApiKey can receive from POST /api/auth
AuthOutcomes == {"api_key", "error", "unreachable"}

\* a clear that keeps the shop the client was authenticated for
clearStoredCredentialsKeepShop(c, removed) ==
  IF removed
  THEN [c EXCEPT !.stored = <<>>, !.token = Absent, !.tokenExpiry = Absent]
  ELSE c

\* _clearStoredCredentials: storage.local.remove(), then shop, token and
\* tokenExpiry are set to null; an error of the storage is caught and leaves
\* the fields as they are
clearStoredCredentials(c, removed) ==
  IF removed
  THEN [c EXCEPT !.stored = <<>>, !.shop = NoShop, !.token = Absent,
                 !.tokenExpiry = Absent]
  ELSE c

\* authenticate(shop): the client afterwards and the message of the error
\* thrown, if any; only one call runs at a time, so authInProgress is false
authenticate(c, shop, outcome) ==
  IF ~isValidShopDomain(shop)
  THEN [client |-> c, thrown |-> "Invalid shop domain"]
  ELSE IF c.shop = shop /\ c.token # Absent /\ c.tokenExpiry = Later
  THEN [client |-> c, thrown |-> ""]
  ELSE IF outcome = "api_key"
  THEN [client |-> [c EXCEPT !.stored = <<shop, KeyUUID[c.keys + 1]>>,
                             !.shop = shop, !.token = KeyUUID[c.keys + 1],
                             !.tokenExpiry = Later, !.keys = c.keys + 1],
        thrown |-> ""]
  ELSE IF outcome = "error"
  THEN [client |-> c, thrown |-> "Authentication failed"]
  ELSE [client |-> c, thrown |-> "Failed to request API key"]
\* the answers of the worker that are left while keys can be handed out
AuthOutcomesFor(c) == {o \in AuthOutcomes : o = "api_key" => c.keys < MaxClientKeys}

\* auth.authenticate(shop) called by the extension
ClientAuthenticate ==
  /\ client.pc = "ready"
  /\ \E shop \in {ShopA, BadShop}, outcome \in AuthOutcomesFor(client) :
       client' = [authenticate(client, shop, outcome).client EXCEPT
                    !.error = authenticate(client, shop, outcome).thrown]
  /\ UNCHANGED <<server, call>>

\* the catch block of api(): the last attempt rethrows, an earlier one waits
\* retryDelay * attempts and goes round the loop
ApiCatch(c, message) ==
  IF c.attempts >= c.retryAttempts
  THEN [c EXCEPT !.pc = "ended", !.outcome = "thrown", !.error = message]
  ELSE [c EXCEPT !.delays = Append(@, retryDelay * c.attempts)]

\* auth.api(endpoint, {retry}) up to its loop
ClientApi ==
  /\ client.pc = "ready"
  /\ \E retry \in BOOLEAN, outcome \in AuthOutcomesFor(client) :
       LET start == [client EXCEPT !.retry = retry, !.attempts = 0, !.sent = <<>>,
                                   !.delays = <<>>, !.reauth = <<>>,
                                   !.refresh = FALSE, !.outcome = "", !.error = "",
                                   !.status = 0, !.authShop = client.shop]
           auth == authenticate(start, start.shop, outcome)
       IN client' =
            IF start.token # Absent THEN [start EXCEPT !.pc = "fetch"]
            ELSE IF start.shop = NoShop
            THEN [start EXCEPT !.pc = "ended", !.outcome = "thrown",
                               !.error = "Not authenticated"]
            ELSE IF auth.thrown # ""
            THEN [auth.client EXCEPT !.pc = "ended", !.outcome = "thrown",
                                     !.error = auth.thrown]
            ELSE [auth.client EXCEPT !.pc = "fetch"]
  /\ UNCHANGED <<server, call>>

\* one round of the while loop of api(): attempts++, the request with
\* Authorization: Bearer <token>, and what is done with the response
ClientAttempt ==
  /\ client.pc = "fetch"
  /\ \E response \in ProxyResponses, removed \in BOOLEAN,
        outcome \in AuthOutcomesFor(client) :
       LET c == [client EXCEPT !.attempts = @ + 1, !.sent = Append(@, client.token),
                               !.status = response.status]
           cleared == clearStoredCredentials(c, removed)
           auth == authenticate(cleared, cleared.shop, outcome)
           after == [auth.client EXCEPT !.refresh = TRUE,
                                        !.reauth = Append(@, cleared.shop)]
       IN client' =
            IF ~response.reached THEN ApiCatch(c, "fetch failed")
            ELSE IF response.status = 401 /\ c.retry
            THEN IF auth.thrown # "" THEN ApiCatch(after, auth.thrown)
                 ELSE [after EXCEPT !.retry = FALSE, !.attempts = 0]
            ELSE IF response.status = 429
            THEN LET waited ==
                       [c EXCEPT !.delays = Append(@,
                          (IF response.retryAfter = NoHeader THEN DefaultRetryAfter
                           ELSE response.retryAfter) * 1000)]
                 IN IF c.attempts < c.retryAttempts THEN waited
                    ELSE [waited EXCEPT !.pc = "ended", !.outcome = "undefined"]
            ELSE IF response.status # 200 THEN ApiCatch(c, "API request failed")
            ELSE [c EXCEPT !.pc = "ended", !.outcome = "returned"]
  /\ UNCHANGED <<server, call>>

\* the promise of api() has settled; the extension goes on
ClientSettled ==
  /\ client.pc = "ended"
  /\ client' = [client EXCEPT !.pc = "ready"]
  /\ UNCHANGED <<server, call>>

\* new ShopifyAuthClient(workerUrl, options) with nothing in storage
InitClient ==
  /\ InitServer
  /\ call = NoCall
  /\ client \in {[NoClient EXCEPT !.pc = "ready", !.retryAttempts = n] :
                   n \in RetryAttemptsOptions}

(***************************************************************************)
(* authenticate() calls that overlap on one ShopifyAuthClient.             *)
(* client.calls[i] is the i-th call: where it is suspended (at the fetch   *)
(* of _requestApiKey, in the OAuth flow, at the _requestApiKey after it)   *)
(* or how it has settled.                                                  *)
(***************************************************************************)
AuthMethods == {"tab", "popup"}
\* what POST /api/auth can give _requestApiKey
ApiKeyOutcomes == {"api_key", "App not installed", "error", "unreachable"}
\* how the OAuth tab or window can end: the tab flow has the error page and
\* the two-minute timeout, the popup flow the closing of the window
OAuthOutcomes(authMethod) ==
  IF authMethod = "popup" THEN {"redirected", "OAuth window was closed by user"}
  ELSE {"redirected", "OAuth flow failed", "OAuth flow timed out"}
InFlight == {"request", "oauth", "request2"}

\* a guard that never finds a call in progress
InProgressNever(c) == FALSE

\* if (this.authInProgress)
InProgress(c) == c.authInProgress

\* this.shop === shop && this.token && this.tokenExpiry > Date.now()
Cached(c, shop) == c.shop = shop /\ c.token # Absent /\ c.tokenExpiry = Later

\* finally { this.authInProgress = false }
Finally(c) == [c EXCEPT !.authInProgress = FALSE]
\* call i settles: it returns, or throws the error
Returns(c, i) == [c EXCEPT !.calls[i].pc = "returned"]
Throws(c, i, error) == [c EXCEPT !.calls[i].pc = "thrown", !.calls[i].error = error]

\* _storeCredentials(shop, token): storage.local.set(), then the fields
storeCredentials(c, shop, token) ==
  [c EXCEPT !.stored = <<shop, token>>, !.shop = shop, !.token = token,
            !.tokenExpiry = Later, !.keys = c.keys + 1]

\* authenticate(shop) up to its first await
AuthenticateStart(i) ==
  /\ client.calls[i].pc = "idle"
  /\ \E shop \in {ShopA, ShopB, BadShop} :
       LET c == [client EXCEPT !.calls[i].shop = shop]
       IN client' =
            IF ~isValidShopDomain(shop) THEN Throws(c, i, "Invalid shop domain")
            ELSE IF Cached(c, shop)
            THEN Returns([c EXCEPT !.calls[i].cached = TRUE], i)
            ELSE IF InProgress(c)
            THEN Throws(c, i, "Authentication already in progress")
            ELSE [c EXCEPT !.authInProgress = TRUE, !.calls[i].pc = "request"]
  /\ UNCHANGED <<server, call>>

\* what is done with the answer of _requestApiKey, and the finally block
\* unless the call goes on to the OAuth flow
AuthenticateResponse(i) ==
  /\ client.calls[i].pc = "request"
  /\ \E outcome \in ApiKeyOutcomes, stored \in BOOLEAN :
       /\ outcome = "api_key" => client.keys < MaxClientKeys
       /\ client' =
            IF outcome = "api_key"
            THEN IF stored
                 THEN Finally(Returns(storeCredentials(client, client.calls[i].shop,
                                                       KeyUUID[client.keys + 1]), i))
                 ELSE Finally(Throws(client, i, "storage"))
            ELSE IF outcome = "App not installed"
            THEN [client EXCEPT !.calls[i].pc = "oauth"]
            ELSE IF outcome = "error"
            THEN Finally(Throws(client, i, "Authentication failed"))
            ELSE Finally(Throws(client, i, "Failed to request API key"))
  /\ UNCHANGED <<server, call>>

\* _performOAuthFlow: the tab or window is redirected to the app in the
\* shop's admin, or the promise is rejected
AuthenticateOAuth(i) ==
  /\ client.calls[i].pc = "oauth"
  /\ \E outcome \in OAuthOutcomes(client.authMethod) :
       client' =
         IF outcome = "redirected" THEN [client EXCEPT !.calls[i].pc = "request2"]
         ELSE Finally(Throws(client, i, outcome))
  /\ UNCHANGED <<server, call>>

\* the listener after the redirect: _requestApiKey again, then resolve or
\* reject, and the finally block of authenticate()
AuthenticateAfterOAuth(i) ==
  /\ client.calls[i].pc = "request2"
  /\ \E outcome \in ApiKeyOutcomes, stored \in BOOLEAN :
       /\ outcome = "api_key" => client.keys < MaxClientKeys
       /\ client' =
            IF outcome = "api_key"
            THEN IF stored
                 THEN Finally(Returns(storeCredentials(client, client.calls[i].shop,
                                                       KeyUUID[client.keys + 1]), i))
                 ELSE Finally(Throws(client, i, "storage"))
            ELSE IF outcome = "unreachable"
            THEN Finally(Throws(client, i, "Failed to request API key"))
            ELSE Finally(Throws(client, i, "Failed to obtain API key after OAuth"))
  /\ UNCHANGED <<server, call>>

\* the caller has the result of call i
AuthenticateSettled(i) ==
  /\ client.calls[i].pc \in {"returned", "thrown"}
  /\ client' = [client EXCEPT !.calls[i] = NoAuthCall]
  /\ UNCHANGED <<server, call>>

\* new ShopifyAuthClient(workerUrl, {authMethod}) with nothing in storage
InitAuth ==
  /\ InitServer
  /\ call = NoCall
  /\ client \in {[NoClient EXCEPT !.pc = "ready", !.retryAttempts = 3,
                                   !.authMethod = m] : m \in AuthMethods}

(***************************************************************************)
(* Applications of the functions of hmac.js to inputs drawn at the start.  *)
(***************************************************************************)
\* strings of up to MaxLen characters over three letters
StringChars == {"a", "b", "A"}
Strings == UNION {[1..n -> StringChars] : n \in 0..MaxLen}

\* callback query strings: code, shop and state, then possibly a signature
\* parameter or a parameter whose name is in upper case, each signed by the
\* provider over the entries other than hmac and signature in the order of
\* the code units of their names
Key_Zone == <<"Z", "o", "n", "e">>
ParamValues == {<<"a">>, <<"b", "a">>}
ExtraParams == {<<>>} \cup {<<<<k, <<"a">>>>>> : k \in {Key_signature, Key_Zone}}
CanonicalMessage(params) ==
  Join(SortEntries("byte", ParamsDelete(ParamsDelete(params, Key_hmac), Key_signature)))
Sign(params) ==
  <<<<Key_hmac, HmacSha256("hex", SHOPIFY_API_SECRET, CanonicalMessage(params))>>>>
      \o params
SignedQueries ==
  {Sign(<<<<Key_state, state>>, <<Key_shop, shop>>, <<Key_code, <<"a">>>>>> \o extra) :
     state \in ParamValues, shop \in ParamValues, extra \in ExtraParams}
\* one character changed: in the value of one parameter, or in the signature
OtherChar(c) == IF c = "a" THEN "b" ELSE "a"
ChangedText(digest) == <<"hex, one character changed", digest[2], digest[3]>>
ChangedQueries ==
  {[q EXCEPT ![1][2] = ChangedText(q[1][2])] : q \in SignedQueries}
  \cup UNION {{[q EXCEPT ![i][2][j] = OtherChar(q[i][2][j])] : j \in 1..Len(q[i][2])} :
              <<q, i>> \in {<<q, i>> \in SignedQueries \X (2..5) : i <= Len(q)}}

\* parameter sets whose values may hold the characters & and = (a query
\* string carries them as %26 and %3D, which URLSearchParams decodes), and
\* the queries that present one set with the signature that verifies for
\* another
ParamSets ==
  {<<<<Key_code, <<"a">>>>, <<Key_shop, <<"b">>>>>>,
   <<<<Key_shop, <<"b">>>>, <<Key_code, <<"a">>>>>>,
   <<<<Key_code, <<"b">>>>, <<Key_shop, <<"b">>>>>>,
   <<<<Key_code, <<"a", "&", "s", "h", "o", "p", "=", "b">>>>>>}
Entries(params) == {params[i] : i \in 1..Len(params)}
WithHmac(params, hmac) == <<<<Key_hmac, hmac>>>> \o params
VerifyingHmac(params) ==
  HmacSha256("hex", SHOPIFY_API_SECRET, Join(SortedParams(params)))
CrossQueries ==
  {WithHmac(presented, VerifyingHmac(signed)) :
     presented \in ParamSets, signed \in ParamSets}

Calls ==
  {[NoCall EXCEPT !.fn = "timingSafeEqual", !.args = <<a, b>>] :
     a \in Strings, b \in Strings}
  \cup {[NoCall EXCEPT !.fn = "verifyShopifyHmac", !.args = <<q, SHOPIFY_API_SECRET>>] :
          q \in SignedQueries \cup ChangedQueries \cup CrossQueries}
  \cup {[NoCall EXCEPT !.fn = "verifyWebhookHmac",
                       !.args = <<body, HmacSha256("base64", SHOPIFY_API_SECRET, signed),
                                  SHOPIFY_API_SECRET>>] :
          body \in Bodies, signed \in Bodies}

InitHmac ==
  /\ InitServer
  /\ call \in Calls
  /\ client = NoClient

ApplyTimingSafeEqual ==
  /\ call.fn = "timingSafeEqual" /\ ~call.returned
  /\ call' = [call EXCEPT !.returned = TRUE,
                          !.result = timingSafeEqualRun(call.args[1], call.args[2]).result,
                          !.steps = timingSafeEqualRun(call.args[1], call.args[2]).steps]
  /\ UNCHANGED <<server, client>>

ApplyVerifyShopifyHmac ==
  /\ call.fn = "verifyShopifyHmac" /\ ~call.returned
  /\ call' = [call EXCEPT !.returned = TRUE,
                          !.result = verifyShopifyHmac(call.args[1], call.args[2])]
  /\ UNCHANGED <<server, client>>

ApplyVerifyWebhookHmac ==
  /\ call.fn = "verifyWebhookHmac" /\ ~call.returned
  /\ call' = [call EXCEPT !.returned = TRUE,
                          !.result = verifyWebhookHmac(call.args[1], call.args[2],
                                                       call.args[3])]
  /\ UNCHANGED <<server, client>>

Next ==
  \/ \E p \in Procs : handleRootPath(p)
  \/ \E p \in Procs : handleOAuth(p)
  \/ \E p \in Procs : handleOAuthCallback(p)
  \/ \E p \in Procs : CallbackExchange(p)
  \/ \E p \in Procs : CallbackStore(p)
  \/ \E p \in Procs : handleExtensionAuth(p)
  \/ \E p \in Procs : ExtensionAuthPutKey(p)
  \/ \E p \in Procs : handleAPIProxy(p)
  \/ \E p \in Procs : handleWebhook(p)
  \/ \E p \in Procs : Respond(p)
  \/ ExpireState
  \/ ExpireKey

Spec == Init /\ [][Next]_vars

\* the OAuth handshake alone: /auth and /auth/callback
NextOAuth ==
  \/ \E p \in Procs : handleOAuth(p)
  \/ \E p \in Procs : handleOAuthCallback(p)
  \/ \E p \in Procs : CallbackExchange(p)
  \/ \E p \in Procs : CallbackStore(p)
  \/ \E p \in Procs : Respond(p)
  \/ ExpireState

SpecOAuth == Init /\ [][NextOAuth]_vars

\* installation and credential issuance alone, with up to MaxIssued keys
NextIssuance ==
  \/ \E p \in Procs : handleOAuth(p)
  \/ \E p \in Procs : handleOAuthCallback(p)
  \/ \E p \in Procs : CallbackExchange(p)
  \/ \E p \in Procs : CallbackStore(p)
  \/ \E p \in Procs : handleExtensionAuth(p)
  \/ \E p \in Procs : ExtensionAuthPutKeyOf(p, MaxIssued)
  \/ \E p \in Procs : Respond(p)

SpecIssuance == Init /\ [][NextIssuance]_vars

\* the OAuth handshake with a shop whose server may never answer; the runtime
\* resumes a handler once the KV operation or the fetch it awaits has settled
\* and sends a finished response
NextAwaits ==
  \/ \E p \in Procs : handleOAuth(p)
  \/ \E p \in Procs : handleOAuthCallback(p)
  \/ \E p \in Procs : CallbackExchange(p)
  \/ \E p \in Procs : CallbackExchangeAwaits(p)
  \/ \E p \in Procs : CallbackStore(p)
  \/ \E p \in Procs : CallbackStoreAwaits(p)
  \/ \E p \in Procs : Respond(p)

SpecAwaits ==
  /\ Init /\ [][NextAwaits]_vars
  /\ \A p \in Procs : /\ WF_vars(CallbackExchange(p) \/ CallbackExchangeAwaits(p))
                       /\ WF_vars(CallbackStore(p) \/ CallbackStoreAwaits(p))
                       /\ WF_vars(Respond(p))

\* one extension client and the calls made on it
NextClient ==
  \/ ClientAuthenticate
  \/ ClientApi
  \/ ClientAttempt
  \/ ClientSettled

SpecClient == InitClient /\ [][NextClient]_vars

\* one extension client and the authenticate() calls made on it
NextAuth ==
  \/ \E i \in AuthCalls : AuthenticateStart(i)
  \/ \E i \in AuthCalls : AuthenticateResponse(i)
  \/ \E i \in AuthCalls : AuthenticateOAuth(i)
  \/ \E i \in AuthCalls : AuthenticateAfterOAuth(i)
  \/ \E i \in AuthCalls : AuthenticateSettled(i)

SpecAuth == InitAuth /\ [][NextAuth]_vars

\* the functions of hmac.js applied to one input each
NextHmac ==
  \/ ApplyTimingSafeEqual
  \/ ApplyVerifyShopifyHmac
  \/ ApplyVerifyWebhookHmac

SpecHmac == InitHmac /\ [][NextHmac]_vars

(***************************************************************************)
(* Properties                                                              *)
(***************************************************************************)
IsCallback(p) == handler[p] = "/auth/callback"
LookedUp(p) == IsCallback(p) /\ "AUTH_STATES.get" \in log[p].ops
Ended(p) == pc[p] = "done"
PastStateCheck(p) ==
  /\ IsCallback(p)
  /\ \/ pc[p] \in {"cb_delete", "cb_store"}
     \/ "AUTH_STATES.delete" \in log[p].ops
ProviderSignature(params) ==
  HmacSha256("hex", SHOPIFY_API_SECRET,
             ProviderMessage(params.code, params.shop, params.state))

\* C1: once a callback has looked a state token up and has ended, whatever its
\* outcome, the state store holds no entry for that token (so no later callback
\* can pass the state check with it).
C1_StateGoneWhenCallbackEnds ==
  \A p \in Procs :
    (LookedUp(p) /\ Ended(p)) => req[p].state \notin DOMAIN AUTH_STATES

\* C2: of the callbacks presenting one state token at most one gets past the
\* state check, makes a token exchange, and writes the MerchantRecord.
C2_AtMostOnePastStateCheck ==
  \A st \in IssuedStates :
    LET with == {p \in Procs : IsCallback(p) /\ req[p].state = st}
    IN /\ Cardinality({p \in with : PastStateCheck(p)}) <= 1
       /\ Cardinality({p \in with : log[p].exchange > 0}) <= 1
       /\ Cardinality({p \in with : "SHOPS.put" \in log[p].ops}) <= 1

\* C3: a callback whose state token has no entry in the state store, or an
\* entry for another shop, has ended with AuthenticationError "Invalid state
\* parameter" (403), has made no upstream call and has not written SHOPS.
C3_InvalidStateFailsClosed ==
  \A p \in Procs :
    (LookedUp(p) /\ loc[p].savedShop # req[p].shop) =>
      /\ Ended(p)
      /\ resp[p].error = "AuthenticationError"
      /\ resp[p].status = 403
      /\ resp[p].message = ERROR_MESSAGES.INVALID_STATE
      /\ log[p].exchange = 0
      /\ log[p].webhooks = 0
      /\ "SHOPS.put" \notin log[p].ops

\* a callback for ShopB presenting a state token stored for ShopA was refused
C3_Witness ==
  \E p \in Procs :
    /\ LookedUp(p) /\ Ended(p)
    /\ loc[p].savedShop \in ValidShops
    /\ req[p].shop \in ValidShops
    /\ loc[p].savedShop # req[p].shop
    /\ resp[p].message = ERROR_MESSAGES.INVALID_STATE

\* the merchant domain a request names, for the operations that take one
TakesDomain(p) ==
  \/ handler[p] \in {"/", "/auth", "/auth/callback", "/api/auth"}
  \/ handler[p] = "/webhooks" /\ req[p].topic = "shop/redact" /\ req[p].body # NoBody
DomainOf(p) == IF handler[p] = "/webhooks" THEN ShopDomain(req[p].body) ELSE req[p].shop

\* C4: an operation given a domain that does not match the validation rule ends
\* with a validation error (400) and has made no get, put or delete on any
\* store.
C4_InvalidDomainRejectedBeforeStore ==
  \A p \in Procs :
    (TakesDomain(p) /\ DomainOf(p) # NoShop /\ ~isValidShopDomain(DomainOf(p))) =>
      /\ log[p].ops = {}
      /\ Ended(p)
      /\ resp[p].status = 400

\* C5: a callback that passed the state check and whose hmac is not the
\* provider's signature of its parameters has ended, once the signature was
\* looked at, with AuthenticationError "Invalid HMAC signature" (403), without
\* a token exchange and without writing SHOPS.
C5_InvalidSignatureFails ==
  \A p \in Procs :
    (/\ IsCallback(p)
     /\ "AUTH_STATES.delete" \in log[p].ops
     /\ req[p].hmac # ProviderSignature(req[p])) =>
      /\ Ended(p)
      /\ resp[p].error = "AuthenticationError"
      /\ resp[p].status = 403
      /\ resp[p].message = ERROR_MESSAGES.INVALID_HMAC
      /\ log[p].exchange = 0
      /\ "SHOPS.put" \notin log[p].ops

\* a callback with the right state and a signature made with another secret
\* was refused
C5_Witness ==
  \E p \in Procs :
    /\ IsCallback(p) /\ Ended(p)
    /\ log[p].stateOk
    /\ req[p].hmac = HmacSha256("hex", OtherSecret,
                                ProviderMessage(req[p].code, req[p].shop, req[p].state))
    /\ resp[p].message = ERROR_MESSAGES.INVALID_HMAC

\* C6: a callback whose token exchange got a non-success response has ended
\* with AuthenticationError "Failed to exchange code for token", has not
\* written SHOPS and has registered no webhook; and the step in which the
\* exchange fails leaves SHOPS as it was.
C6_FailedExchangeInvariant ==
  \A p \in Procs :
    (IsCallback(p) /\ log[p].exchanged = "not ok") =>
      /\ Ended(p)
      /\ resp[p].error = "AuthenticationError"
      /\ resp[p].message = ERROR_MESSAGES.FAILED_TOKEN_EXCHANGE
      /\ "SHOPS.put" \notin log[p].ops
      /\ log[p].webhooks = 0
C6_FailedExchangeStep ==
  \A p \in Procs :
    (pc[p] = "cb_delete" /\ log'[p].exchanged = "not ok") => SHOPS' = SHOPS
C6_FailedExchangeFails ==
  []C6_FailedExchangeInvariant /\ [][C6_FailedExchangeStep]_vars

\* the exchange failed for a shop that is installed, and its record is there
C6_Witness ==
  \E p \in Procs :
    /\ IsCallback(p) /\ Ended(p)
    /\ log[p].exchanged = "not ok"
    /\ req[p].shop \in DOMAIN SHOPS

\* C7: the step that persists the result of a successful exchange leaves the
\* shop's record holding the exchanged access token and scope, whatever was
\* there before; and a callback whose exchange succeeded does not end in
\* anything but the redirect (302), with the record written.
C7_PersistStep ==
  \A p \in Procs :
    (pc[p] = "cb_store" /\ pc'[p] # "cb_store") =>
      /\ req[p].shop \in DOMAIN SHOPS'
      /\ SHOPS'[req[p].shop].value.accessToken = loc[p].tokenData.access_token
      /\ SHOPS'[req[p].shop].value.scope = loc[p].tokenData.scope
      /\ loc[p].tokenData.access_token \in AccessTokens
C7_SuccessInvariant ==
  \A p \in Procs :
    (IsCallback(p) /\ log[p].exchanged = "ok") =>
      \/ pc[p] = "cb_store"
      \/ /\ Ended(p)
         /\ resp[p].status = 302
         /\ "SHOPS.put" \in log[p].ops
C7_ReinstallOverwrites ==
  []C7_SuccessInvariant /\ [][C7_PersistStep]_vars

\* a callback for an installed shop ended in the redirect, having replaced the
\* shop's token by the one it exchanged
C7_Witness ==
  \E p \in Procs :
    /\ IsCallback(p) /\ Ended(p)
    /\ resp[p].status = 302
    /\ log[p].replaced
    /\ SHOPS[req[p].shop].value.accessToken = loc[p].tokenData.access_token

\* C8: SHOPS changes only in the persist step of a callback whose state check,
\* signature verification and token exchange succeeded, which puts that
\* callback's shop and nothing else, or in the handling of a shop/redact
\* webhook, which deletes the shop named in the body and nothing else.
C8_PutByCallback(p) ==
  /\ pc[p] = "cb_store" /\ pc'[p] = "done"
  /\ IsCallback(p)
  /\ log[p].stateOk
  /\ req[p].hmac = ProviderSignature(req[p])
  /\ log[p].exchanged = "ok"
  /\ DOMAIN SHOPS' = DOMAIN SHOPS \cup {req[p].shop}
  /\ \A k \in DOMAIN SHOPS \ {req[p].shop} : SHOPS'[k] = SHOPS[k]
C8_DeleteByRedact(p) ==
  /\ pc[p] = "idle" /\ pc'[p] = "done"
  /\ handler'[p] = "/webhooks"
  /\ req'[p].topic = "shop/redact"
  /\ DOMAIN SHOPS' = DOMAIN SHOPS \ {ShopDomain(req'[p].body)}
  /\ \A k \in DOMAIN SHOPS' : SHOPS'[k] = SHOPS[k]
C8_ShopsWriters ==
  [][SHOPS' # SHOPS => \E p \in Procs : C8_PutByCallback(p) \/ C8_DeleteByRedact(p)]_vars

\* a shop/redact webhook deleted the record of one shop and left the other's
C8_Witness ==
  \E p \in Procs :
    /\ handler[p] = "/webhooks" /\ Ended(p)
    /\ "SHOPS.delete" \in log[p].ops
    /\ ShopDomain(req[p].body) \notin DOMAIN SHOPS
    /\ DOMAIN SHOPS # {}

\* C9: a callback in which a webhook registration failed (unreachable upstream
\* or non-success response) has attempted all three registrations and ended in
\* the redirect (302), with the shop's record written before and still there.
C9_RegistrationFailureNotFatal ==
  \A p \in Procs :
    (IsCallback(p) /\ log[p].regFailed) =>
      /\ Ended(p)
      /\ resp[p].status = 302
      /\ resp[p].error = ""
      /\ log[p].webhooks = Len(MandatoryWebhooks)
      /\ "SHOPS.put" \in log[p].ops
      /\ req[p].shop \in DOMAIN SHOPS

\* a callback ended in the redirect although a registration failed
C9_Witness ==
  \E p \in Procs :
    /\ IsCallback(p) /\ Ended(p)
    /\ log[p].regFailed
    /\ resp[p].status = 302

\* C10: a callback with code, shop, state or hmac absent or empty has ended
\* with ValidationError "Missing required OAuth parameters" (400) without any
\* store operation or upstream call, and the step that receives it changes
\* none of the three stores.
MissingParam(params) ==
  \/ params.code = Absent
  \/ params.shop = NoShop
  \/ params.state = Absent
  \/ params.hmac = NoHmac
C10_MissingParamInvariant ==
  \A p \in Procs :
    (IsCallback(p) /\ MissingParam(req[p])) =>
      /\ Ended(p)
      /\ resp[p].error = "ValidationError"
      /\ resp[p].status = 400
      /\ resp[p].message = ERROR_MESSAGES.MISSING_OAUTH_PARAMS
      /\ log[p].ops = {}
      /\ log[p].exchange = 0
      /\ log[p].webhooks = 0
C10_MissingParamStep ==
  \A p \in Procs :
    (pc[p] = "idle" /\ handler'[p] = "/auth/callback" /\ MissingParam(req'[p])) =>
      stores' = stores
C10_MissingParamRejected ==
  []C10_MissingParamInvariant /\ [][C10_MissingParamStep]_vars

\* a callback without hmac, presenting a state token that is in the store for
\* its shop, was rejected
C10_Witness ==
  \E p \in Procs :
    /\ IsCallback(p) /\ Ended(p)
    /\ req[p].hmac = NoHmac
    /\ req[p].code # Absent
    /\ req[p].shop \in ValidShops
    /\ KVGet(AUTH_STATES, req[p].state, NoShop) = req[p].shop
    /\ resp[p].error = "ValidationError"

\* C11: the step that handles GET /auth for a domain matching the validation
\* rule adds exactly one AuthState entry, under a state token never handed out
\* before, holding that domain with a TTL of 600 seconds, and answers with a
\* redirect (302) to the shop's authorization endpoint carrying that token; for
\* any other domain it answers ValidationError (400) and stores nothing.
C11_InitiateStep ==
  \A p \in Procs :
    (pc[p] = "idle" /\ handler'[p] = "/auth") =>
      LET shop == req'[p].shop
          added == DOMAIN AUTH_STATES' \ DOMAIN AUTH_STATES
      IN /\ pc'[p] = "done"
         /\ SHOPS' = SHOPS /\ API_KEYS' = API_KEYS
         /\ IF isValidShopDomain(shop)
            THEN /\ Cardinality(added) = 1
                 /\ \A k \in DOMAIN AUTH_STATES : AUTH_STATES'[k] = AUTH_STATES[k]
                 /\ \A state \in added :
                      /\ state \notin IssuedStates
                      /\ AUTH_STATES'[state] = [value |-> shop, expirationTtl |-> 600]
                      /\ resp'[p].status = 302
                      /\ resp'[p].data[1] = shop
                      /\ resp'[p].data[2] = "/admin/oauth/authorize"
                      /\ resp'[p].data[6] = state
            ELSE /\ AUTH_STATES' = AUTH_STATES
                 /\ resp'[p].error = "ValidationError"
                 /\ resp'[p].status = 400
C12_ExpiredIsAbsent == expired \cap DOMAIN AUTH_STATES = {}
C12_ExpiredStep ==
  \A p \in Procs :
    (/\ pc[p] = "idle" /\ handler'[p] = "/auth/callback"
     /\ ~MissingParam(req'[p])
     /\ \/ req'[p].state \in expired
        \/ req'[p].state \notin DOMAIN AUTH_STATES) =>
      /\ pc'[p] = "done"
      /\ resp'[p] = AuthenticationError(ERROR_MESSAGES.INVALID_STATE, 403)
      /\ log'[p].exchange = 0
      /\ log'[p].webhooks = 0
      /\ stores' = stores
C12_ExpiredStateFails == []C12_ExpiredIsAbsent /\ [][C12_ExpiredStep]_vars

\* a callback for the shop a token was issued to, with the provider's
\* signature, was refused because the token had expired
C12_Witness ==
  \E p \in Procs :
    /\ IsCallback(p) /\ Ended(p)
    /\ req[p].state \in expired
    /\ req[p].shop \in ValidShops
    /\ req[p].hmac = ProviderSignature(req[p])
    /\ resp[p].message = ERROR_MESSAGES.INVALID_STATE

\* the answer of POST /api/auth for a shop without a record
NotInstalled == createJsonResponse(<<ERROR_MESSAGES.APP_NOT_INSTALLED>>, 403)
IsIssuance(p) == handler[p] = "/api/auth"

\* C13: the step that receives a credential request for a valid domain without
\* a MerchantRecord ends the request with the JSON response "App not
\* installed" (403), returned by the handler and not made from a thrown error,
\* and leaves API_KEYS as it was.
C13_NotInstalledStep ==
  \A p \in Procs :
    (/\ pc[p] = "idle" /\ handler'[p] = "/api/auth"
     /\ isValidShopDomain(req'[p].shop)
     /\ req'[p].shop \notin DOMAIN SHOPS) =>
      /\ pc'[p] = "done"
      /\ resp'[p] = NotInstalled
      /\ resp'[p].type = "json" /\ resp'[p].error = ""
      /\ "API_KEYS.put" \notin log'[p].ops
      /\ API_KEYS' = API_KEYS
      /\ keyCount' = keyCount
C13_NotInstalledNoCredential == [][C13_NotInstalledStep]_vars

\* a credential request for a valid shop that is not installed was answered
\* "App not installed" while another shop is installed
C13_Witness ==
  \E p \in Procs :
    /\ IsIssuance(p) /\ Ended(p)
    /\ req[p].shop \in ValidShops
    /\ req[p].shop \notin DOMAIN SHOPS
    /\ DOMAIN SHOPS # {}
    /\ resp[p] = NotInstalled
    /\ API_KEYS = EmptyKV

\* C14: a step that persists a ClientCredential does so for a domain that has
\* a MerchantRecord at that moment.
C14_CredentialOnlyForInstalled ==
  [][\A k \in DOMAIN API_KEYS' \ DOMAIN API_KEYS :
       API_KEYS'[k].value.shop \in DOMAIN SHOPS]_vars

\* C15: a validly signed shop/redact webhook that has been handled, its body
\* being the JSON that names a domain, leaves no MerchantRecord for that domain; a domain without a record gets one
\* only in the persist step of a callback for it; and a credential request
\* received for a valid domain without a record is answered "App not
\* installed".  Together: after the redaction, until a callback for the domain
\* persists, every credential request for it is answered "App not installed".
C15_RedactedInvariant ==
  \A p \in Procs :
    (/\ handler[p] = "/webhooks" /\ Ended(p)
     /\ req[p].topic = "shop/redact"
     /\ verifyWebhookHmac(req[p].body, req[p].hmac, SHOPIFY_API_SECRET)
     /\ BodyParses(req[p].body)) =>
      /\ resp[p].status = 200
      /\ ShopDomain(req[p].body) \notin DOMAIN SHOPS
C15_OnlyCallbackInstalls ==
  \A d \in DOMAIN SHOPS' \ DOMAIN SHOPS :
    \E p \in Procs : IsCallback(p) /\ pc[p] = "cb_store" /\ req[p].shop = d
C15_IssueAfterRedactStep ==
  \A p \in Procs :
    (/\ pc[p] = "idle" /\ handler'[p] = "/api/auth"
     /\ isValidShopDomain(req'[p].shop)
     /\ req'[p].shop \notin DOMAIN SHOPS) =>
      /\ resp'[p] = NotInstalled
      /\ pc'[p] = "done"
C15_RedactThenNotInstalled ==
  /\ []C15_RedactedInvariant
  /\ [][C15_OnlyCallbackInstalls /\ C15_IssueAfterRedactStep]_vars

\* a shop that had been installed and given a credential was redacted, and the
\* next credential request for it was answered "App not installed"
C15_Witness ==
  \E p \in Procs :
    /\ IsIssuance(p) /\ Ended(p)
    /\ resp[p] = NotInstalled
    /\ req[p].shop \notin DOMAIN SHOPS
    /\ \E k \in DOMAIN API_KEYS : API_KEYS[k].value.shop = req[p].shop

IsProxy(p) == handler[p] = "/api/proxy"
KeyOf(p) == extractApiKey(req[p].authorization)
\* the key the request presents has an entry in API_KEYS
Resolves(p) == KeyOf(p) # Absent /\ KeyName(KeyOf(p)) \in DOMAIN API_KEYS
Forwarded(p) == IsProxy(p) /\ Ended(p) /\ log[p].proxy > 0
FailedProxy == createJsonResponse(<<ERROR_MESSAGES.FAILED_PROXY>>, 500)

\* C16: a proxy request without a Bearer key, or with a key that has no entry
\* in API_KEYS (never issued, or expired), has ended with status 401 and has
\* made no upstream call, whatever its endpoint, method and data.
C16_UnknownKeyRejected ==
  \A p \in Procs :
    (IsProxy(p) /\ ~Resolves(p)) =>
      /\ Ended(p)
      /\ resp[p].status = 401
      /\ resp[p].message = ""
      /\ resp[p].data \in {<<ERROR_MESSAGES.MISSING_AUTH>>,
                           <<ERROR_MESSAGES.INVALID_API_KEY>>}
      /\ log[p].proxy = 0
      /\ log[p].sent = <<>>

\* a POST with endpoint and data under a key that was issued and has expired
\* was answered 401
C16_Witness ==
  \E p \in Procs :
    /\ IsProxy(p) /\ Ended(p)
    /\ KeyOf(p) \in IssuedKeys
    /\ KeyName(KeyOf(p)) \notin DOMAIN API_KEYS
    /\ req[p].endpoint # Absent /\ req[p].method = "POST" /\ req[p].data # Absent
    /\ resp[p].status = 401

\* C17: a proxy request whose key has an entry and whose endpoint is not empty
\* has made exactly one upstream request (one call of fetch), whatever came of
\* it: to the shop stored with the key, with the access token stored with the
\* key, the endpoint of the request and its method (GET if it names none).
C17_OneUpstreamRequest ==
  \A p \in Procs :
    (IsProxy(p) /\ Resolves(p) /\ req[p].endpoint # Absent) =>
      LET keyData == API_KEYS[KeyName(KeyOf(p))].value
      IN /\ Ended(p)
         /\ log[p].proxy = 1
         /\ log[p].sent[1] = keyData.shop
         /\ log[p].sent[5] = keyData.accessToken
         /\ log[p].sent[2] = req[p].endpoint
         /\ log[p].sent[3] = IF req[p].method = Absent THEN "GET" ELSE req[p].method

\* a POST was forwarded once with the token stored with the key, which is no
\* longer the shop's token, and the upstream was unreachable
C17_Witness ==
  \E p \in Procs :
    /\ Forwarded(p)
    /\ req[p].method = "POST"
    /\ ~log[p].upstream.reached
    /\ log[p].proxy = 1
    /\ log[p].sent[1] \in DOMAIN SHOPS
    /\ SHOPS[log[p].sent[1]].value.accessToken # log[p].sent[5]

\* C18: a proxy request whose upstream request was answered with an HTTP
\* response has ended with that response's status and with that response's
\* body as its own body.
C18_UpstreamRelayedUnchanged ==
  \A p \in Procs :
    (Forwarded(p) /\ log[p].upstream.reached) =>
      /\ resp[p].status = log[p].upstream.status
      /\ JsonText(resp[p].data) = log[p].upstream.body

\* C19: the upstream request of the proxy has a body exactly when the method
\* is not read-only (GET, HEAD) and the client supplied data, and the body is
\* then that data.
C19_BodyOnlyForWritingMethods ==
  \A p \in Procs :
    Forwarded(p) =>
      log[p].sent[4] = IF log[p].sent[3] \in {"GET", "HEAD"} THEN Absent
                       ELSE req[p].data

\* C20: a proxy request whose upstream request failed at transport level has
\* ended with the response "Failed to proxy request" (500), made by the
\* handler and not from a thrown error; and a proxy request that ended with
\* that response had no HTTP response from the upstream.
C20_FailedProxyOnlyOnTransport ==
  \A p \in Procs :
    /\ (Forwarded(p) /\ ~log[p].upstream.reached) =>
         (resp[p] = FailedProxy /\ resp[p].error = "")
    /\ (IsProxy(p) /\ Ended(p) /\ resp[p] = FailedProxy) =>
         ~log[p].upstream.reached

\* C23: verifyShopifyHmac returns true for every callback query string whose
\* hmac is the hex HMAC-SHA256 of the canonical string of its other
\* parameters, and false once one character of the signature or of the value
\* of another parameter is changed.
C23_SignedVerifiesChangedFails ==
  (call.fn = "verifyShopifyHmac" /\ call.returned) =>
    /\ call.args[1] \in SignedQueries => call.result
    /\ call.args[1] \in ChangedQueries => ~call.result

\* C24: verifyWebhookHmac(body, base64 HMAC-SHA256 of body, secret) is true for
\* every body, the empty body included, and false when the signature is that
\* of another body.
C24_WebhookSignatureOfBody ==
  (call.fn = "verifyWebhookHmac" /\ call.returned) =>
    call.result = (call.args[2] = HmacSha256("base64", call.args[3], call.args[1]))

\* C25: timingSafeEqual returns false for strings of different lengths; for
\* strings of one length it runs one loop step per index, wherever the first
\* mismatch is, and returns true exactly when no index differs.
C25_ConstantTimeComparison ==
  (call.fn = "timingSafeEqual" /\ call.returned) =>
    LET a == call.args[1]
        b == call.args[2]
    IN  /\ Len(a) # Len(b) => ~call.result
        /\ Len(a) = Len(b) =>
             /\ call.steps = Len(a)
             /\ call.result = (\A i \in 1..Len(a) : a[i] = b[i])

\* two strings of the greatest length that differ at their first index were
\* compared
C25_Witness ==
  /\ call.fn = "timingSafeEqual" /\ call.returned
  /\ Len(call.args[1]) = MaxLen /\ Len(call.args[2]) = MaxLen
  /\ call.args[1][1] # call.args[2][1]
  /\ call.steps = MaxLen /\ ~call.result

IsWebhook(p) == handler[p] = "/webhooks"
WebhookSignature(body) == HmacSha256("base64", SHOPIFY_API_SECRET, body)

\* C21: a webhook whose signature is missing, wrong or that of another body
\* ends with AuthenticationError "Invalid webhook signature" (401): nothing is
\* dispatched, the body is not parsed (a body that is not JSON gets the same
\* answer) and the step leaves the three namespaces as they were.
C21_Refused ==
  \A p \in Procs :
    (/\ IsWebhook(p) /\ Ended(p)
     /\ req[p].hmac # WebhookSignature(req[p].body)) =>
      /\ resp[p] = AuthenticationError(ERROR_MESSAGES.INVALID_WEBHOOK, 401)
      /\ log[p].ops = {}
C21_RefusedStep ==
  \A p \in Procs :
    (/\ pc[p] = "idle" /\ IsWebhook(p)'
     /\ req'[p].hmac # WebhookSignature(req'[p].body)) =>
      stores' = stores
C21_UnverifiedWebhookNoDispatch == []C21_Refused /\ [][C21_RefusedStep]_vars

\* a shop/redact webhook naming an installed shop and carrying the provider's
\* signature of another body was refused, and the shop's record is in place
C21_Witness ==
  \E p \in Procs :
    /\ IsWebhook(p) /\ Ended(p)
    /\ req[p].topic = "shop/redact"
    /\ req[p].body = Body(ShopA)
    /\ req[p].hmac = WebhookSignature(Body(ShopB))
    /\ ShopA \in DOMAIN SHOPS
    /\ resp[p].status = 401

\* C22: every webhook whose signature verifies is answered with a 2xx status,
\* for each topic and every signed body.
C22_VerifiedWebhookAcknowledged ==
  \A p \in Procs :
    (/\ IsWebhook(p) /\ Ended(p)
     /\ verifyWebhookHmac(req[p].body, req[p].hmac, SHOPIFY_API_SECRET)) =>
      resp[p].status \in 200..299

\* C26: no operation blocks for ever: a callback that has been accepted
\* eventually ends with a response, even if the upstream never answers.
C26_CallbackCompletes ==
  \A p \in Procs : (IsCallback(p) /\ pc[p] # "idle") ~> Ended(p)

\* C27: under every interleaving of issuance calls, a call that succeeds
\* returns a key that resolves to its shop, and the put of a new key leaves
\* every credential issued before in API_KEYS as it was.
C27_KeyResolves ==
  \A p \in Procs :
    (IsIssuance(p) /\ Ended(p) /\ resp[p].status = 200) =>
      KVGet(API_KEYS, KeyName(resp[p].data[2]), NoKeyData).shop = req[p].shop
C27_IssueStep ==
  \A p \in Procs :
    (pc[p] = "ea_put" /\ pc'[p] = "done") =>
      /\ resp'[p].status = 200
      /\ KeyName(resp'[p].data[2]) \notin DOMAIN API_KEYS
      /\ \A k \in DOMAIN API_KEYS :
           k \in DOMAIN API_KEYS' /\ API_KEYS'[k] = API_KEYS[k]
C27_ConcurrentIssuanceKeepsKeys == []C27_KeyResolves /\ [][C27_IssueStep]_vars

\* an issuance call for a shop has succeeded while another call for the same
\* shop is in flight, and a key issued to the shop before still resolves
C27_Witness ==
  \E p, q \in Procs :
    /\ IsIssuance(p) /\ Ended(p) /\ resp[p].status = 200
    /\ IsIssuance(q) /\ pc[q] = "ea_put" /\ req[q].shop = req[p].shop
    /\ \E k \in DOMAIN API_KEYS :
         /\ k # KeyName(resp[p].data[2])
         /\ API_KEYS[k].value.shop = req[p].shop

\* C28: two callbacks for one shop with different state tokens that run
\* together both complete with the redirect, and each persist step leaves in
\* SHOPS the whole record of the callback that made it: the record is that of
\* the last persist and never a mixture of two token responses.
C28_WholeRecord ==
  \A shop \in DOMAIN SHOPS :
    \E t \in AccessTokens :
      SHOPS[shop].value = [accessToken |-> t, scope |-> GrantedScope(t)]
C28_PersistStep ==
  \A p \in Procs :
    (pc[p] = "cb_store" /\ pc'[p] = "done") =>
      /\ resp'[p] = Redirect(<<req[p].shop, "/admin/apps">>)
      /\ SHOPS'[req[p].shop].value = ShopData(loc[p].tokenData)
      /\ \A shop \in DOMAIN SHOPS' \ {req[p].shop} :
           shop \in DOMAIN SHOPS /\ SHOPS'[shop] = SHOPS[shop]
C28_LastWriteWins == []C28_WholeRecord /\ [][C28_PersistStep]_vars

\* a callback has persisted its token and been redirected while another
\* callback for the same shop, with another state token and another access
\* token, is between its token exchange and its persist step
C28_Witness ==
  \E p, q \in Procs :
    /\ IsCallback(p) /\ Ended(p) /\ resp[p].status = 302
    /\ IsCallback(q) /\ pc[q] = "cb_store"
    /\ req[q].shop = req[p].shop /\ req[q].state # req[p].state
    /\ loc[q].tokenData.access_token # loc[p].tokenData.access_token
    /\ SHOPS[req[p].shop].value = ShopData(loc[p].tokenData)

\* C29: when api() gets a 401 on a call with retry enabled, the client
\* re-authenticates for the shop it was authenticated for, and the request it
\* sends next carries a newly obtained token.
C29_ReauthenticatesAndRetries ==
  client.refresh =>
    /\ client.reauth[1] = client.authShop
    /\ Len(client.sent) >= 2 => client.sent[2] \notin {client.sent[1], Absent}

\* C30: the delays api() waits before its successive retries, after a 429 or
\* a failed attempt, grow exponentially: each is longer than the one before
\* and in the same ratio to it.
C30_ExponentialBackoff ==
  \A i \in 1..(Len(client.delays) - 1) :
    /\ client.delays[i + 1] > client.delays[i]
    /\ i >= 2 => client.delays[i + 1] * client.delays[i - 1]
                    = client.delays[i] * client.delays[i]

CustomerTopics == {"customers/redact", "customers/data_request"}

\* C31: handling a customers/redact or customers/data_request webhook whose
\* signature verifies leaves AUTH_STATES, SHOPS and API_KEYS as they were, and
\* the handler makes no KV operation.
C31_CustomerStep ==
  \A p \in Procs :
    (/\ pc[p] = "idle" /\ IsWebhook(p)'
     /\ req'[p].topic \in CustomerTopics
     /\ req'[p].hmac = WebhookSignature(req'[p].body)) =>
      /\ stores' = stores
      /\ log'[p].ops = {}
C31_CustomerWebhookKeepsStores == [][C31_CustomerStep]_vars

\* a signed customers/redact webhook naming an installed shop was answered 200
\* and the shop's record and a credential of the shop are in place
C31_Witness ==
  \E p \in Procs :
    /\ IsWebhook(p) /\ Ended(p)
    /\ req[p].topic = "customers/redact"
    /\ req[p].body = Body(ShopA)
    /\ req[p].hmac = WebhookSignature(Body(ShopA))
    /\ resp[p].status = 200
    /\ ShopA \in DOMAIN SHOPS
    /\ \E k \in DOMAIN API_KEYS : API_KEYS[k].value.shop = ShopA

\* the names of the entries of a canonical message, in its order
Names(entries) == [i \in 1..Len(entries) |-> entries[i][1]]

\* C32: the message verifyShopifyHmac signs lists the parameters other than
\* hmac and signature with their names in the order of their bytes, for every
\* set of names, names in upper case included.
C32_CanonicalSortedByBytes ==
  (call.fn = "verifyShopifyHmac" /\ call.returned) =>
    LET names == Names(SortedParams(call.args[1]))
    IN  \A i \in 1..(Len(names) - 1) : byteCompare(names[i], names[i + 1]) <= 0

\* C33: the proxy checks the key before the endpoint: a request without a key
\* that resolves has ended with 401 whether or not it names an endpoint, a
\* request with a key that resolves and no endpoint has ended with 400, and
\* neither has made an upstream call.
C33_KeyBeforeEndpoint ==
  \A p \in Procs :
    /\ (IsProxy(p) /\ ~Resolves(p)) =>
         (Ended(p) /\ resp[p].status = 401 /\ log[p].proxy = 0)
    /\ (IsProxy(p) /\ Resolves(p) /\ req[p].endpoint = Absent) =>
         (Ended(p) /\ resp[p].status = 400 /\ log[p].proxy = 0)

IsEmbedded(p) ==
  /\ handler[p] = "/" /\ Ended(p)
  /\ req[p].shop \in DOMAIN SHOPS
  /\ req[p].embedded = "1"

\* C34: a request on the root path with embedded=1 for an installed shop has
\* ended with the access-denied page (403) if it has no host parameter and
\* with the embedded app if it has one, whether or not isValidHost accepts the
\* host for the shop.
C34_EmbeddedFailOpen ==
  \A p \in Procs :
    IsEmbedded(p) =>
      /\ req[p].host = NoHost => resp[p] = createAccessDeniedPage
      /\ req[p].host # NoHost => resp[p] = createEmbeddedApp

\* the embedded app was served for a host that names another shop
C34_Witness ==
  \E p \in Procs :
    /\ IsEmbedded(p)
    /\ req[p].host \notin {NoHost, BadHost}
    /\ ~isValidHost(req[p].host, req[p].shop)
    /\ resp[p].status = 200 /\ resp[p].message = "embedded app"

\* C35: the step that handles a shop/redact webhook leaves API_KEYS and
\* AUTH_STATES as they were and removes from SHOPS at most the record of the
\* domain its body names; a proxy request whose key has an entry for a shop
\* without a record has been forwarded with the token stored with the key.
C35_RedactStep ==
  \A p \in Procs :
    (pc[p] = "idle" /\ IsWebhook(p)' /\ req'[p].topic = "shop/redact") =>
      /\ API_KEYS' = API_KEYS
      /\ AUTH_STATES' = AUTH_STATES
      /\ \A s \in DOMAIN SHOPS :
           IF s \in DOMAIN SHOPS' THEN SHOPS'[s] = SHOPS[s]
           ELSE BodyParses(req'[p].body) /\ s = ShopDomain(req'[p].body)
C35_KeyOutlivesRecord ==
  \A p \in Procs :
    (/\ IsProxy(p) /\ Resolves(p) /\ req[p].endpoint # Absent
     /\ API_KEYS[KeyName(KeyOf(p))].value.shop \notin DOMAIN SHOPS) =>
      /\ Forwarded(p)
      /\ log[p].sent[1] = API_KEYS[KeyName(KeyOf(p))].value.shop
      /\ log[p].sent[5] = API_KEYS[KeyName(KeyOf(p))].value.accessToken
C35_RedactKeepsCredentials == []C35_KeyOutlivesRecord /\ [][C35_RedactStep]_vars

\* a proxy request under a key of a shop whose record has been deleted was
\* forwarded with the key's token and answered by the upstream
C35_Witness ==
  \E p \in Procs :
    /\ Forwarded(p)
    /\ log[p].sent[1] \notin DOMAIN SHOPS
    /\ log[p].sent[5] = "t1"
    /\ log[p].upstream.reached /\ resp[p].status = 200

\* C36: a credential holds the access token its issuance request read from the
\* shop's record; no step changes a credential that exists, and the step that
\* persists a callback's token leaves API_KEYS as it was; a forwarded proxy
\* request carries the token stored with its key.
C36_IssueStep ==
  \A p \in Procs :
    (pc[p] = "ea_put" /\ pc'[p] = "done") =>
      \A k \in DOMAIN API_KEYS' \ DOMAIN API_KEYS :
        API_KEYS'[k].value = [shop |-> req[p].shop,
                              accessToken |-> loc[p].tokenData.access_token]
C36_KeptStep ==
  /\ \A k \in DOMAIN API_KEYS \cap DOMAIN API_KEYS' : API_KEYS'[k] = API_KEYS[k]
  /\ SHOPS' # SHOPS => API_KEYS' = API_KEYS
C36_ProxyUsesStoredToken ==
  \A p \in Procs :
    Forwarded(p) =>
      /\ Resolves(p)
      /\ log[p].sent[5] = API_KEYS[KeyName(KeyOf(p))].value.accessToken
C36_CredentialKeepsToken ==
  []C36_ProxyUsesStoredToken /\ [][C36_IssueStep /\ C36_KeptStep]_vars

\* a key was issued with the token t1, a later callback has replaced the
\* shop's token by t2, and a proxy request under the key was forwarded with t1
C36_Witness ==
  \E p \in Procs :
    /\ Forwarded(p)
    /\ log[p].sent[1] \in DOMAIN SHOPS
    /\ SHOPS[log[p].sent[1]].value.accessToken = "t2"
    /\ API_KEYS[KeyName(KeyOf(p))].value.accessToken = "t1"
    /\ log[p].sent[5] = "t1"

\* C37: two parameter sets that differ as sets of name/value pairs have
\* different canonical strings, and verifyShopifyHmac returns false for a
\* query that presents one of them with the signature that verifies for the
\* other.
C37_CanonicalInjective ==
  (call.fn = "verifyShopifyHmac" /\ call.returned) =>
    LET presented == ParamsDelete(ParamsDelete(call.args[1], Key_hmac), Key_signature)
        hmac == ParamsGet(call.args[1], Key_hmac, NoHmac)
    IN  \A signed \in ParamSets :
          Entries(signed) # Entries(presented) =>
            /\ Join(SortedParams(signed)) # Join(SortedParams(presented))
            /\ hmac = VerifyingHmac(signed) => ~call.result

Running38(i) == client.calls[i].pc \in InFlight

\* C38: at most one authenticate() call is between its API-key request and
\* its completion, and authInProgress is true exactly while there is one; a
\* call with a valid shop that is not served from the cached credentials
\* throws 'Authentication already in progress' when it starts while another
\* is in progress, leaving that call, the flag and the credentials as they
\* were, and goes on to its API-key request when none is in progress.
C38_OneInFlight ==
  /\ \A i, j \in AuthCalls : (Running38(i) /\ Running38(j)) => i = j
  /\ client.authInProgress = (\E i \in AuthCalls : Running38(i))
C38_StartStep ==
  \A i \in AuthCalls :
    (/\ client.calls[i].pc = "idle" /\ client'.calls[i].pc # "idle"
     /\ isValidShopDomain(client'.calls[i].shop)
     /\ ~client'.calls[i].cached) =>
      IF \E j \in AuthCalls : Running38(j)
      THEN /\ client'.calls[i].pc = "thrown"
           /\ client'.calls[i].error = "Authentication already in progress"
           /\ \A j \in AuthCalls \ {i} : client'.calls[j] = client.calls[j]
           /\ client'.authInProgress
           /\ <<client'.shop, client'.token, client'.stored>> =
                <<client.shop, client.token, client.stored>>
      ELSE client'.calls[i].pc = "request"
C38_SingleAuthentication == []C38_OneInFlight /\ [][C38_StartStep]_vars

\* a second call was refused while the first is in its OAuth flow
C38_Witness ==
  \E i, j \in AuthCalls :
    /\ client.calls[i].pc = "oauth"
    /\ client.calls[j].pc = "thrown"
    /\ client.calls[j].error = "Authentication already in progress"
    /\ client.authInProgress

\* the requests of the running api() call that carried the token
SentWith(token) == {n \in 1..Len(client.sent) : client.sent[n] = token}

\* C39: an api() call that has completed has returned the body of a response
\* with a 2xx status or has thrown an error, also when every attempt was
\* answered 429; and it has sent at most retryAttempts requests with any one
\* token.
C39_ApiReturnsOrThrows ==
  /\ client.pc = "ended" =>
       \/ client.outcome = "returned" /\ client.status \in 200..299
       \/ client.outcome = "thrown" /\ client.error # ""
  /\ \A token \in {client.sent[n] : n \in 1..Len(client.sent)} :
       Cardinality(SentWith(token)) <= client.retryAttempts

====
